---- MODULE Spec2Model ----
(***************************************************************************)
(* Model of the effect pipeline of tetsuo-discord-imagegen:                *)
(*   core/image_processor.py       BaseImageProcessor (current image, undo *)
(*                                 history, reset)                         *)
(*   core/effect_processor.py      EffectProcessor (apply_* effects, the   *)
(*                                 dispatcher by name, effect sequences,   *)
(*                                 create_effect_animation)                *)
(*   core/animation_processor.py   AnimationProcessor (construction,       *)
(*                                 generate_frames, create_video, cleanup) *)
(*   core/utils.py                 ImageUtils.interpolate_value            *)
(*   core/ascii_processor.py       ASCIIProcessor.convert_to_ascii         *)
(*   effects/animation_effects.py  easing, interpolate_parameters and      *)
(*                                 create_animation_frame                  *)
(*   effects/advanced_effects.py   the effect functions on images          *)
(*   tetimi.py                     ImageProcessor (apply_effect,           *)
(*                                 convertImageToAscii, merge_params)      *)
(*   bot.py                        the animate command                     *)
(*                                                                         *)
(* Numbers are held exactly, with a flag telling whether Python holds them *)
(* as an int or as a float (range() refuses a float); float arithmetic     *)
(* rounds as IEEE 754 binary64 does.                                       *)
(*                                                                         *)
(* An image is its mode, its size and the list of pixel transformations    *)
(* applied to the loaded pixels: two images are pixel-identical when the   *)
(* three agree.  A transformation the code computes as the identity (zero  *)
(* glitch lines, zero noise, brightness factor 1, a fully transparent      *)
(* overlay) adds nothing to the list.                                      *)
(***************************************************************************)
EXTENDS Integers, Sequences, FiniteSets, TLC

----------------------------------------------------------------------------
(* Bounds of the model *)

MaxCalls == 3
MaxEffects == 2
MaxFrames == 3
MaxSide == 6

----------------------------------------------------------------------------
(* Numbers *)

\* A Python number is held exactly: sign s (-1, 0, 1), magnitude m * 2^e
\* with m an odd natural number (0 has m = <<>> and e = 0), and the flag
\* isfloat telling whether Python holds it as an int or as a float.  A
\* natural number is the sequence of its digits in base LimbBase, the least
\* significant first, without leading zeros.  An int operation is exact; a
\* float operation is the exact result rounded to Precision significant
\* bits, ties to even (IEEE 754 binary64; no value of the model leaves the
\* range of the normal numbers).

LimbBits == 14
LimbBase == 16384
Precision == 53

Abs(x) == IF x < 0 THEN -x ELSE x

\* Eval(op, a) is the value of the operation named op on the arguments a.
\* The operations on numbers are defined below under their names followed
\* by Impl, and are used under their names; Eval is defined after the
\* operations it names.
RECURSIVE Eval(_, _)
Num(s, m, e, isfloat) == Eval("Num", <<s, m, e, isfloat>>)
RoundFloat(s, m, e, sticky) == Eval("RoundFloat", <<s, m, e, sticky>>)
PyInt(k) == Eval("PyInt", <<k>>)
ToFloat(x) == Eval("ToFloat", <<x>>)
ExactAdd(x, y) == Eval("ExactAdd", <<x, y>>)
NumAdd(x, y) == Eval("NumAdd", <<x, y>>)
NumSub(x, y) == Eval("NumSub", <<x, y>>)
NumMul(x, y) == Eval("NumMul", <<x, y>>)
NumDiv(x, y) == Eval("NumDiv", <<x, y>>)
PyFloat(n, d) == Eval("PyFloat", <<n, d>>)
NumLeq(x, y) == Eval("NumLeq", <<x, y>>)
NumLt(x, y) == Eval("NumLt", <<x, y>>)
PyTrunc(x) == Eval("PyTrunc", <<x>>)

RECURSIVE BigTrim(_)
BigTrim(a) ==
    IF a # <<>> /\ a[Len(a)] = 0
    THEN BigTrim(SubSeq(a, 1, Len(a) - 1))
    ELSE a

RECURSIVE BigFromInt(_)
BigFromInt(k) ==
    IF k = 0 THEN <<>>
    ELSE <<k % LimbBase>> \o BigFromInt(k \div LimbBase)

RECURSIVE BigToInt(_)
BigToInt(a) ==
    IF a = <<>> THEN 0 ELSE a[1] + LimbBase * BigToInt(Tail(a))

Limb(a, k) == IF k <= Len(a) THEN a[k] ELSE 0

RECURSIVE BigAddFrom(_, _, _, _)
BigAddFrom(a, b, k, carry) ==
    IF k > Len(a) /\ k > Len(b)
    THEN IF carry = 0 THEN <<>> ELSE <<carry>>
    ELSE LET t == Limb(a, k) + Limb(b, k) + carry
         IN  <<t % LimbBase>> \o BigAddFrom(a, b, k + 1, t \div LimbBase)

BigAdd(a, b) == BigTrim(BigAddFrom(a, b, 1, 0))

RECURSIVE BigSubFrom(_, _, _, _)
BigSubFrom(a, b, k, borrow) ==
    IF k > Len(a) THEN <<>>
    ELSE LET t == a[k] - Limb(b, k) - borrow
         IN  <<t % LimbBase>>
             \o BigSubFrom(a, b, k + 1, IF t < 0 THEN 1 ELSE 0)

\* a - b, for a >= b
BigSub(a, b) == BigTrim(BigSubFrom(a, b, 1, 0))

RECURSIVE BigCmpFrom(_, _, _)
BigCmpFrom(a, b, k) ==
    IF k = 0 THEN 0
    ELSE IF a[k] < b[k] THEN -1
    ELSE IF a[k] > b[k] THEN 1
    ELSE BigCmpFrom(a, b, k - 1)

\* -1, 0, 1 as a < b, a = b, a > b
BigCmp(a, b) ==
    IF Len(a) < Len(b) THEN -1
    ELSE IF Len(a) > Len(b) THEN 1
    ELSE BigCmpFrom(a, b, Len(a))

RECURSIVE BigMulSmallFrom(_, _, _, _)
BigMulSmallFrom(a, k, n, carry) ==
    IF n > Len(a) THEN BigFromInt(carry)
    ELSE LET t == a[n] * k + carry
         IN  <<t % LimbBase>>
             \o BigMulSmallFrom(a, k, n + 1, t \div LimbBase)

\* a * k, for 0 <= k <= LimbBase
BigMulSmall(a, k) == BigTrim(BigMulSmallFrom(a, k, 1, 0))

RECURSIVE BigMulFrom(_, _, _)
BigMulFrom(a, b, n) ==
    IF n > Len(b) THEN <<>>
    ELSE BigAddFrom(BigMulSmall(a, b[n]), <<0>> \o BigMulFrom(a, b, n + 1),
                    1, 0)

BigMul(a, b) == BigTrim(BigMulFrom(a, b, 1))

RECURSIVE BigDivSmallFrom(_, _, _, _)
BigDivSmallFrom(a, d, k, rem) ==
    IF k = 0 THEN [q |-> <<>>, r |-> rem]
    ELSE LET t == rem * LimbBase + a[k]
             rest == BigDivSmallFrom(a, d, k - 1, t % d)
         IN  [q |-> Append(rest.q, t \div d), r |-> rest.r]

\* quotient and remainder of a by d, for 0 < d <= LimbBase
BigDivSmall(a, d) ==
    LET x == BigDivSmallFrom(a, d, Len(a), 0)
    IN  [q |-> BigTrim(x.q), r |-> BigFromInt(x.r)]

Zeros(n) == [k \in 1..n |-> 0]

\* a * 2^k
BigShl(a, k) ==
    IF a = <<>> THEN <<>>
    ELSE Zeros(k \div LimbBits) \o BigMulSmall(a, 2 ^ (k % LimbBits))

\* a \div 2^k
BigShr(a, k) ==
    IF k \div LimbBits >= Len(a) THEN <<>>
    ELSE BigDivSmall(SubSeq(a, k \div LimbBits + 1, Len(a)),
                     2 ^ (k % LimbBits)).q

RECURSIVE IntBitLen(_)
IntBitLen(k) == IF k = 0 THEN 0 ELSE 1 + IntBitLen(k \div 2)

BigBitLen(a) ==
    IF a = <<>> THEN 0
    ELSE LimbBits * (Len(a) - 1) + IntBitLen(a[Len(a)])

\* a is odd
BigOdd(a) == a # <<>> /\ a[1] % 2 = 1

RECURSIVE IntTrailingZeros(_)
IntTrailingZeros(k) ==
    IF k % 2 = 1 THEN 0 ELSE 1 + IntTrailingZeros(k \div 2)

RECURSIVE BigTrailingZeros(_)
BigTrailingZeros(a) ==
    IF a[1] = 0 THEN LimbBits + BigTrailingZeros(Tail(a))
    ELSE IntTrailingZeros(a[1])

\* the largest digit t in lo..hi with b * t <= r
RECURSIVE DigitSearch(_, _, _, _)
DigitSearch(r, b, lo, hi) ==
    IF lo = hi THEN lo
    ELSE LET mid == (lo + hi + 1) \div 2
         IN  IF BigCmp(BigMulSmall(b, mid), r) <= 0
             THEN DigitSearch(r, b, mid, hi)
             ELSE DigitSearch(r, b, lo, mid - 1)

\* long division, digit by digit: the digits k..1 of a are still to be
\* brought down to the remainder r
RECURSIVE BigDivModFrom(_, _, _, _)
BigDivModFrom(a, b, k, r) ==
    IF k = 0 THEN [q |-> <<>>, r |-> r]
    ELSE LET r1 == BigTrim(<<a[k]>> \o r)
             t == DigitSearch(r1, b, 0, LimbBase - 1)
             rest == BigDivModFrom(a, b, k - 1,
                                   BigSub(r1, BigMulSmall(b, t)))
         IN  [q |-> Append(rest.q, t), r |-> rest.r]

\* quotient and remainder of a by b, for b > 0
BigDivMod(a, b) ==
    IF Len(b) = 1 THEN BigDivSmall(a, b[1])
    ELSE LET x == BigDivModFrom(a, b, Len(a), <<>>)
         IN  [q |-> BigTrim(x.q), r |-> x.r]

\* the number s * m * 2^e, m any natural number
NumImpl(s, m, e, isfloat) ==
    IF m = <<>> \/ s = 0
    THEN [s |-> 0, m |-> <<>>, e |-> 0, isfloat |-> isfloat]
    ELSE LET z == BigTrailingZeros(m)
         IN  [s |-> s, m |-> BigShr(m, z), e |-> e + z, isfloat |-> isfloat]

\* the float nearest to s * (m + f) * 2^e, where 0 <= f < 1 and f > 0 exactly
\* when sticky; m has more than Precision + 1 bits when sticky
RoundFloatImpl(s, m, e, sticky) ==
    LET k == BigBitLen(m) - Precision
    IN  IF k <= 0 THEN Num(s, m, e, TRUE)
        ELSE LET q == BigShr(m, k)
                 rem == BigSub(m, BigShl(q, k))
                 half == BigCmp(rem, BigShl(<<1>>, k - 1))
                 up == \/ half > 0
                       \/ half = 0 /\ (sticky \/ BigOdd(q))
             IN  Num(s, IF up THEN BigAdd(q, <<1>>) ELSE q, e + k, TRUE)

PyIntImpl(k) ==
    Num(IF k > 0 THEN 1 ELSE IF k < 0 THEN -1 ELSE 0, BigFromInt(Abs(k)), 0,
        FALSE)

\* float(x)
ToFloatImpl(x) == RoundFloat(x.s, x.m, x.e, FALSE)

\* the exact sum of x and y
ExactAddImpl(x, y) ==
    LET e == IF x.e < y.e THEN x.e ELSE y.e
        a == BigShl(x.m, x.e - e)
        b == BigShl(y.m, y.e - e)
        c == BigCmp(a, b)
    IN  IF x.s = 0 THEN [s |-> y.s, m |-> y.m, e |-> y.e]
        ELSE IF y.s = 0 THEN [s |-> x.s, m |-> x.m, e |-> x.e]
        ELSE IF x.s = y.s THEN [s |-> x.s, m |-> BigAdd(a, b), e |-> e]
        ELSE IF c = 0 THEN [s |-> 0, m |-> <<>>, e |-> 0]
        ELSE IF c > 0 THEN [s |-> x.s, m |-> BigSub(a, b), e |-> e]
        ELSE [s |-> y.s, m |-> BigSub(b, a), e |-> e]

\* an int result is exact, a float result is rounded
Result(v, isfloat) ==
    IF isfloat THEN RoundFloat(v.s, v.m, v.e, FALSE)
    ELSE Num(v.s, v.m, v.e, FALSE)

Neg(x) == [x EXCEPT !.s = -x.s]

NumAddImpl(x, y) == Result(ExactAdd(x, y), x.isfloat \/ y.isfloat)
NumSubImpl(x, y) == Result(ExactAdd(x, Neg(y)), x.isfloat \/ y.isfloat)
NumMulImpl(x, y) ==
    Result([s |-> x.s * y.s, m |-> BigMul(x.m, y.m), e |-> x.e + y.e],
           x.isfloat \/ y.isfloat)

\* x / y, for y # 0: the exact quotient to Precision + 3 bits or more, with
\* the rest of it as the sticky bit, rounded
NumDivImpl(x, y) ==
    LET need == Precision + 3 + BigBitLen(y.m) - BigBitLen(x.m)
        k == IF need > 0 THEN need ELSE 0
        d == BigDivMod(BigShl(x.m, k), y.m)
    IN  RoundFloat(x.s * y.s, d.q, x.e - y.e - k, d.r # <<>>)

\* the float literal n/d in decimal notation, and the division of two ints
PyFloatImpl(n, d) == NumDiv(PyInt(n), PyInt(d))

\* the comparisons of Python compare the exact values
NumLeqImpl(x, y) == ExactAdd(x, Neg(y)).s <= 0
NumLtImpl(x, y) == ExactAdd(x, Neg(y)).s < 0
\* Python's == on numbers: 2 == 2.0
NumEq(x, y) == x.s = y.s /\ x.m = y.m /\ x.e = y.e

\* int(x): truncation towards zero
PyTruncImpl(x) ==
    x.s * BigToInt(IF x.e >= 0 THEN BigShl(x.m, x.e) ELSE BigShr(x.m, -x.e))

\* the chained comparison  lo <= x <= hi
Between(lo, x, hi) == NumLeq(lo, x) /\ NumLeq(x, hi)

Zero == PyInt(0)
One == PyInt(1)
Half == PyFloat(1, 2)

----------------------------------------------------------------------------
(* Images *)

Img(mode, w, h) == [mode |-> mode, w |-> w, h |-> h, px |-> <<>>]

\* one pixel transformation
Tag(op, v) == [op |-> op, v |-> v]

Transformed(img, op, v) == [img EXCEPT !.px = Append(@, Tag(op, v))]

\* Image.convert(mode): a change of mode changes the pixel data
Convert(img, mode) ==
    [Transformed(img, "convert", Zero) EXCEPT !.mode = mode]

----------------------------------------------------------------------------
(* Effect names and parameters *)

EFFECT_ORDER ==
    <<"rgb", "color", "glitch", "chroma", "scan", "noise", "energy",
      "pulse", "consciousness">>

EffectName == {EFFECT_ORDER[k] : k \in DOMAIN EFFECT_ORDER}

ParamNames == {"intensity", "offset", "gap", "opacity"}

\* a parameter of a params dict: absent, a number, or a 2-tuple (start, end)
Absent == [kind |-> "absent", a |-> Zero, b |-> Zero]
Scalar(v) == [kind |-> "scalar", a |-> v, b |-> v]
Range(s, e) == [kind |-> "tuple", a |-> s, b |-> e]

NoParams == [k \in ParamNames |-> Absent]
With(params, key, value) == [params EXCEPT ![key] = value]

\* dict.get(key, default)
Get(params, key, default) ==
    IF params[key].kind = "absent" THEN Scalar(default) ELSE params[key]

\* a Python value: a number, a tuple of numbers, a string, or None; v is the
\* numbers of a tuple, or the one number
PyNum(x) == [kind |-> "num", v |-> <<x>>, str |-> ""]
PyTuple(xs) == [kind |-> "tuple", v |-> xs, str |-> ""]
PyStr(str) == [kind |-> "str", v |-> <<>>, str |-> str]
PyNone == [kind |-> "none", v |-> <<>>, str |-> ""]
NumOf(x) == x.v[1]

----------------------------------------------------------------------------
(* BaseImageProcessor: the state of one processor and what a call returns *)

Proc(orig, cur, hist) ==
    [original_image |-> orig, current_image |-> cur, history |-> hist]

\* __init__: the loaded image is the original, the current image a copy
NewProcessor(image_input) == Proc(image_input, image_input, <<>>)

\* a call ends normally ("none") or raises; p is the state it leaves
Ok(P) == [p |-> P, err |-> "none"]
Raise(P, e) == [p |-> P, err |-> e]

\* statement sequencing: an exception skips the rest
Then(out, F(_)) == IF out.err # "none" THEN out ELSE F(out.p)

\* self.history.append(self.current_image.copy())
Push(P) == [P EXCEPT !.history = Append(@, P.current_image)]

\* resize: size is (width, height); the same size gives an equal image
resize(P, size) ==
    [Push(P) EXCEPT !.current_image =
        IF size = <<@.w, @.h>> THEN @
        ELSE [Transformed(@, "resize", PyInt(size[1]))
                 EXCEPT !.w = size[1], !.h = size[2]]]

\* a conversion that replaces the original image as well
ensure_rgb_ConvertsOriginal(P) ==
    IF P.current_image.mode # "RGB"
    THEN [Push(P) EXCEPT !.current_image = Convert(P.current_image, "RGB"),
                         !.original_image = Convert(P.original_image, "RGB")]
    ELSE P

ensure_rgb(P) ==
    IF P.current_image.mode # "RGB"
    THEN [Push(P) EXCEPT !.current_image = Convert(P.current_image, "RGB")]
    ELSE P

ensure_rgba(P) ==
    IF P.current_image.mode # "RGBA"
    THEN [Push(P) EXCEPT !.current_image = Convert(P.current_image, "RGBA")]
    ELSE P

\* ImageEnhance with factor 1.0 gives a copy of the image
adjust_brightness(P, factor) ==
    [Push(P) EXCEPT !.current_image =
        IF NumEq(factor, One) THEN @ ELSE Transformed(@, "brightness", factor)]

adjust_contrast(P, factor) ==
    [Push(P) EXCEPT !.current_image =
        IF NumEq(factor, One) THEN @ ELSE Transformed(@, "contrast", factor)]

apply_blur(P, radius) ==
    [Push(P) EXCEPT !.current_image =
        IF NumEq(radius, Zero) THEN @ ELSE Transformed(@, "blur", radius)]

\* the overlay has one colour; with alpha 0 the composite is the image
apply_color_overlay(P, alpha) ==
    [Push(ensure_rgba(P)) EXCEPT !.current_image =
        IF alpha = 0 THEN @ ELSE Transformed(@, "overlay", PyInt(alpha))]

\* data: the transformation that produced the new band
set_channel(P, channel, data) ==
    IF channel \notin {"R", "G", "B", "A"}
    THEN Raise(P, "ValueError")
    ELSE LET P1 == Push(P)
             P2 == IF channel = "A" /\ P1.current_image.mode = "RGB"
                   THEN ensure_rgba(P1) ELSE P1
         IN  Ok([P2 EXCEPT !.current_image =
                    Transformed(@, data.op, data.v)])

\* the band is shifted (wrapping) and blurred, also when the offset is 0
offset_channel(P, channel, offset_x) ==
    IF channel \notin {"R", "G", "B"}
    THEN Raise(P, "ValueError")
    ELSE set_channel(Push(P), channel,
                     Tag("offset_" \o channel, PyInt(offset_x)))

\* undo that reports success whether or not there was anything to pop
undo_AlwaysTrue(P) ==
    IF P.history = <<>>
    THEN [p |-> P, ret |-> TRUE]
    ELSE [p |-> [P EXCEPT !.current_image = P.history[Len(P.history)],
                          !.history = SubSeq(@, 1, Len(@) - 1)],
          ret |-> TRUE]

undo(P) ==
    IF P.history = <<>>
    THEN [p |-> P, ret |-> FALSE]
    ELSE [p |-> [P EXCEPT !.current_image = P.history[Len(P.history)],
                          !.history = SubSeq(@, 1, Len(@) - 1)],
          ret |-> TRUE]

get_current_image(P) == P.current_image

\* reset that restores the image and keeps the history
reset_KeepsHistory(P) == [P EXCEPT !.current_image = P.original_image]

reset(P) ==
    [P EXCEPT !.history = <<>>, !.current_image = P.original_image]

----------------------------------------------------------------------------
(* EffectProcessor *)

\* np.random.randint(low, high) raises ValueError unless low < high
RandintFails(low, high) == low >= high

apply_glitch(P, intensity) ==
    IF ~Between(Zero, intensity, One)
    THEN Raise(P, "RangeError")
    ELSE LET P1 == Push(ensure_rgb(P))
             height == P1.current_image.h
             num_lines ==
                 PyTrunc(NumMul(NumMul(intensity, PyInt(height)),
                                PyFloat(1, 10)))
             spread == PyTrunc(NumMul(intensity, PyInt(20)))
         IN  IF num_lines > 0
                /\ (RandintFails(0, height - 1)
                    \/ RandintFails(-spread, spread))
             THEN Raise(P1, "ValueError")
             ELSE Ok([P1 EXCEPT !.current_image =
                        IF num_lines = 0 THEN @
                        ELSE Transformed(@, "glitch", intensity)])

apply_chromatic_aberration(P, offset) ==
    IF ~Between(Zero, offset, One)
    THEN Raise(P, "RangeError")
    ELSE LET P1 == Push(ensure_rgb(P))
             width == P1.current_image.w
             max_offset ==
                 PyTrunc(NumMul(NumMul(PyInt(width), offset), PyFloat(1, 10)))
         IN  Then(offset_channel(P1, "R", -max_offset),
                  LAMBDA P2 : offset_channel(P2, "B", max_offset))

apply_scan_lines(P, gap, opacity) ==
    IF NumLt(gap, One)
    THEN Raise(P, "RangeError")
    ELSE IF ~Between(Zero, opacity, One)
    THEN Raise(P, "RangeError")
    ELSE LET P1 == Push(P)
             alpha == PyTrunc(NumMul(opacity, PyInt(255)))
         IN  \* range(0, height, gap) refuses a float step
             IF gap.isfloat
             THEN Raise(P1, "TypeError")
             ELSE Ok([ensure_rgba(P1) EXCEPT !.current_image =
                        IF alpha = 0 THEN @
                        ELSE Transformed(@, "scan", opacity)])

apply_noise(P, intensity) ==
    IF ~Between(Zero, intensity, One)
    THEN Raise(P, "RangeError")
    ELSE Ok([Push(ensure_rgb(P)) EXCEPT !.current_image =
                IF NumEq(intensity, Zero) THEN @
                ELSE Transformed(@, "noise", intensity)])

apply_energy_effect(P, intensity) ==
    IF ~Between(Zero, intensity, One)
    THEN Raise(P, "RangeError")
    ELSE Ok([Push(ensure_rgb(P)) EXCEPT !.current_image =
                IF NumEq(intensity, Zero) THEN @
                ELSE Transformed(@, "energy", intensity)])

apply_pulse_effect(P, intensity) ==
    IF ~Between(Zero, intensity, One)
    THEN Raise(P, "RangeError")
    ELSE Ok([Push(P) EXCEPT !.current_image =
                IF NumEq(intensity, Zero) THEN @
                ELSE Transformed(@, "pulse", intensity)])

\* the composite with the threshold included: chroma also at 0.5
apply_consciousness_effect_ThresholdInclusive(P, intensity) ==
    IF ~Between(Zero, intensity, One)
    THEN Raise(P, "RangeError")
    ELSE LET energy == apply_energy_effect(Push(P),
                           NumMul(intensity, PyFloat(1, 2)))
             pulse == Then(energy, LAMBDA P2 :
                           apply_pulse_effect(P2,
                               NumMul(intensity, PyFloat(3, 10))))
         IN  IF NumLeq(Half, intensity)
             THEN Then(pulse, LAMBDA P3 :
                       apply_chromatic_aberration(P3,
                           NumMul(intensity, PyFloat(2, 5))))
             ELSE pulse

apply_consciousness_effect(P, intensity) ==
    IF ~Between(Zero, intensity, One)
    THEN Raise(P, "RangeError")
    ELSE LET energy == apply_energy_effect(Push(P),
                           NumMul(intensity, PyFloat(1, 2)))
             pulse == Then(energy, LAMBDA P2 :
                           apply_pulse_effect(P2,
                               NumMul(intensity, PyFloat(3, 10))))
         IN  IF NumLt(Half, intensity)
             THEN Then(pulse, LAMBDA P3 :
                       apply_chromatic_aberration(P3,
                           NumMul(intensity, PyFloat(2, 5))))
             ELSE pulse

\* the names of effect_map
EffectMapNames ==
    {"glitch", "chroma", "scan", "noise", "energy", "pulse", "consciousness"}

\* the parameters the lambda of effect_map reads, after .get's defaults
EffectArgs(effect_name, params) ==
    IF effect_name = "chroma" THEN <<Get(params, "offset", Half)>>
    ELSE IF effect_name = "scan"
    THEN <<Get(params, "gap", PyInt(2)), Get(params, "opacity", Half)>>
    ELSE <<Get(params, "intensity", Half)>>

apply_effect(P, effect_name, params) ==
    IF effect_name \notin EffectMapNames
    THEN Raise(P, "UnknownEffect")
    ELSE LET args == EffectArgs(effect_name, params)
         IN  \* a tuple compared with a number raises TypeError; scan
             \* compares gap before it compares opacity
             IF args[1].kind = "tuple"
             THEN Raise(P, "TypeError")
             ELSE IF Len(args) = 2 /\ args[2].kind = "tuple"
             THEN Raise(P, IF NumLt(args[1].a, One) THEN "RangeError"
                           ELSE "TypeError")
             ELSE CASE effect_name = "glitch" -> apply_glitch(P, args[1].a)
                    [] effect_name = "chroma" ->
                           apply_chromatic_aberration(P, args[1].a)
                    [] effect_name = "scan" ->
                           apply_scan_lines(P, args[1].a, args[2].a)
                    [] effect_name = "noise" -> apply_noise(P, args[1].a)
                    [] effect_name = "energy" ->
                           apply_energy_effect(P, args[1].a)
                    [] effect_name = "pulse" ->
                           apply_pulse_effect(P, args[1].a)
                    [] effect_name = "consciousness" ->
                           apply_consciousness_effect(P, args[1].a)

\* for effect_name, params in effects: self.apply_effect(effect_name, params)
\* applied: the names of the effects applied so far, in the order applied
RECURSIVE SequenceFrom(_, _, _, _)
SequenceFrom(P, effect_list, k, applied) ==
    IF k > Len(effect_list)
    THEN [p |-> P, err |-> "none", applied |-> applied]
    ELSE LET out == Eval("apply_effect",
                        <<P, effect_list[k].name, effect_list[k].params>>)
         IN  IF out.err # "none"
             THEN [p |-> out.p, err |-> out.err, applied |-> applied]
             ELSE SequenceFrom(out.p, effect_list, k + 1,
                               Append(applied, effect_list[k].name))

apply_effects_sequence(P, effect_list) ==
    SequenceFrom(P, effect_list, 1, <<>>)

\* one rendered frame: its index, the image, the image its processor was
\* constructed with, its progress, and the effects tried on it (name,
\* frame_params, exception or "none")
Frame(index, image, input, p, tried) ==
    [index |-> index, image |-> image, input |-> input, progress |-> p,
     attempts |-> tried]

Attempt(name, frame_params, err) ==
    [name |-> name, params |-> frame_params, err |-> err]

\* create_effect_animation: a 2-tuple is interpolated inline, every frame
\* is rendered by a new EffectProcessor(self.original_image), and an
\* exception ends the call; p is the calling processor after the call
RECURSIVE EffectAnimationFrom(_, _, _, _, _, _)
EffectAnimationFrom(P, effect_name, params, n_frames, index, frames) ==
    IF index >= n_frames
    THEN [frames |-> frames, err |-> "none", p |-> P]
    ELSE IF n_frames - 1 = 0
    THEN [frames |-> frames, err |-> "ZeroDivisionError", p |-> P]
    ELSE LET prog == PyFloat(index, n_frames - 1)
             frame_params ==
                 [k \in ParamNames |->
                     IF params[k].kind = "tuple"
                     THEN Scalar(NumAdd(params[k].a,
                              NumMul(NumSub(params[k].b, params[k].a),
                                     prog)))
                     ELSE params[k]]
             frame_processor == NewProcessor(P.original_image)
             out == Eval("apply_effect",
                        <<frame_processor, effect_name, frame_params>>)
         IN  IF out.err # "none"
             THEN [frames |-> frames, err |-> out.err, p |-> P]
             ELSE EffectAnimationFrom(P, effect_name, params, n_frames,
                      index + 1,
                      Append(frames,
                          Frame(index, get_current_image(out.p),
                                frame_processor.original_image, prog,
                                <<Attempt(effect_name, frame_params,
                                          "none")>>)))

\* the frames rendered by the calling processor itself
RECURSIVE EffectAnimationOnSelfFrom(_, _, _, _, _, _)
EffectAnimationOnSelfFrom(P, effect_name, params, n_frames, index, frames) ==
    IF index >= n_frames
    THEN [frames |-> frames, err |-> "none", p |-> P]
    ELSE IF n_frames - 1 = 0
    THEN [frames |-> frames, err |-> "ZeroDivisionError", p |-> P]
    ELSE LET prog == PyFloat(index, n_frames - 1)
             frame_params ==
                 [k \in ParamNames |->
                     IF params[k].kind = "tuple"
                     THEN Scalar(NumAdd(params[k].a,
                              NumMul(NumSub(params[k].b, params[k].a),
                                     prog)))
                     ELSE params[k]]
             out == Eval("apply_effect", <<P, effect_name, frame_params>>)
         IN  IF out.err # "none"
             THEN [frames |-> frames, err |-> out.err, p |-> out.p]
             ELSE EffectAnimationOnSelfFrom(out.p, effect_name, params,
                      n_frames, index + 1,
                      Append(frames,
                          Frame(index, get_current_image(out.p),
                                P.original_image, prog,
                                <<Attempt(effect_name, frame_params,
                                          "none")>>)))

create_effect_animation_OnSelf(P, effect_name, params, n_frames) ==
    EffectAnimationOnSelfFrom(P, effect_name, params, n_frames, 0, <<>>)

create_effect_animation(P, effect_name, params, n_frames) ==
    EffectAnimationFrom(P, effect_name, params, n_frames, 0, <<>>)

----------------------------------------------------------------------------
(* effects/advanced_effects.py and create_animation_frame: the library of  *)
(* effect functions on images and its dispatcher                           *)

\* the keyword parameters each library function accepts besides the image
FxKeywords(effect_name) ==
    IF effect_name = "chroma" THEN {"offset"}
    ELSE IF effect_name = "scan" THEN {"gap", "opacity"}
    ELSE {"intensity"}

\* effect_func(frame, **frame_params): what the function raises, if anything.
\* frame_params holds numbers only.
FxError(image, effect_name, frame_params) ==
    LET asked == {k \in ParamNames : frame_params[k].kind # "absent"}
        args == EffectArgs(effect_name, frame_params)
        x == args[1].a
    IN  IF ~(asked \subseteq FxKeywords(effect_name))
        THEN "TypeError"
        ELSE IF effect_name = "scan"
        THEN IF NumLt(x, One) \/ ~Between(Zero, args[2].a, One)
             THEN "RangeError"
             ELSE IF x.isfloat THEN "TypeError" ELSE "none"
        ELSE IF ~Between(Zero, x, One)
        THEN "RangeError"
        ELSE IF effect_name = "glitch"
        THEN IF PyTrunc(NumMul(NumMul(x, PyInt(image.h)), PyFloat(1, 10))) > 0
                /\ (RandintFails(0, image.h - 1)
                    \/ RandintFails(-PyTrunc(NumMul(x, PyInt(20))),
                                    PyTrunc(NumMul(x, PyInt(20)))))
             THEN "ValueError" ELSE "none"
        ELSE IF effect_name = "chroma"
                \/ (effect_name = "consciousness" /\ NumLt(Half, x))
        THEN \* r, g, b = image.split() needs exactly three bands
             IF image.mode # "RGB" THEN "ValueError" ELSE "none"
        ELSE "none"

\* one library function called inside the composite: made holds the calls
\* made so far (name and argument), the failing one included
FxStep(out, effect_name, x) ==
    IF out.err # "none" THEN out
    ELSE LET e == FxError(out.image, effect_name,
                          With(NoParams,
                               IF effect_name = "chroma" THEN "offset"
                               ELSE "intensity", Scalar(x)))
         IN  [image |-> IF e = "none"
                        THEN Transformed(out.image, effect_name, x)
                        ELSE out.image,
              err |-> e,
              made |-> Append(out.made, Tag(effect_name, x))]

\* advanced_effects.apply_consciousness_effect(image, intensity)
fx_apply_consciousness_effect(image, intensity) ==
    IF ~Between(Zero, intensity, One)
    THEN [image |-> image, err |-> "RangeError", made |-> <<>>]
    ELSE LET energy == FxStep([image |-> image, err |-> "none",
                               made |-> <<>>],
                              "energy", NumMul(intensity, PyFloat(1, 2)))
             pulse == FxStep(energy, "pulse",
                             NumMul(intensity, PyFloat(3, 10)))
         IN  IF NumLt(Half, intensity)
             THEN FxStep(pulse, "chroma", NumMul(intensity, PyFloat(2, 5)))
             ELSE pulse

\* the parameters of one frame: a 2-tuple is interpolated inline
FrameParams(params, prog) ==
    [k \in ParamNames |->
        IF params[k].kind = "tuple"
        THEN Scalar(NumAdd(params[k].a,
                 NumMul(NumSub(params[k].b, params[k].a), prog)))
        ELSE params[k]]

RECURSIVE AnimationFrameFrom(_, _, _, _, _)
AnimationFrameFrom(frame, effect_list, prog, k, applied) ==
    IF k > Len(effect_list)
    THEN [image |-> frame, err |-> "none", applied |-> applied]
    ELSE IF effect_list[k].name \notin EffectMapNames
    THEN [image |-> frame, err |-> "UnknownEffect", applied |-> applied]
    ELSE LET fp == FrameParams(effect_list[k].params, prog)
             e == FxError(frame, effect_list[k].name, fp)
         IN  IF e # "none"
             THEN [image |-> frame, err |-> e, applied |-> applied]
             ELSE AnimationFrameFrom(
                      [Transformed(frame, effect_list[k].name,
                                   EffectArgs(effect_list[k].name, fp)[1].a)
                         EXCEPT !.mode = IF effect_list[k].name = "scan"
                                         THEN "RGBA" ELSE @],
                      effect_list, prog, k + 1,
                      Append(applied, effect_list[k].name))

\* linear easing
create_animation_frame(base, effect_list, prog) ==
    IF ~Between(Zero, prog, One)
    THEN [image |-> base, err |-> "RangeError", applied |-> <<>>]
    ELSE AnimationFrameFrom(base, effect_list, prog, 1, <<>>)

----------------------------------------------------------------------------
(* core/utils.py and core/animation_processor.py *)

\* a rounding to the even number below
ensure_size_even_RoundsDown(width, height) ==
    <<IF width % 2 = 0 THEN width ELSE width - 1,
      IF height % 2 = 0 THEN height ELSE height - 1>>

\* ImageUtils.ensure_size_even
ensure_size_even(width, height) ==
    <<IF width % 2 = 0 THEN width ELSE width + 1,
      IF height % 2 = 0 THEN height ELSE height + 1>>

\* AnimationProcessor.__init__: base_image, pasted on an even-sized RGBA
\* canvas filled with (0, 0, 0, 0) when a dimension is odd; the pixels of
\* the canvas are the pixels of the image, the alpha of the fill and the
\* position of the paste
AnimationProcessor_init(image_input) ==
    LET new_size == ensure_size_even(image_input.w, image_input.h)
    IN  IF new_size # <<image_input.w, image_input.h>>
        THEN [mode |-> "RGBA", w |-> new_size[1], h |-> new_size[2],
              px |-> image_input.px
                     \o <<Tag("canvas_alpha", PyInt(0)),
                          Tag("paste_left",
                              PyInt((new_size[1] - image_input.w) \div 2)),
                          Tag("paste_top",
                              PyInt((new_size[2] - image_input.h) \div 2))>>]
        ELSE image_input

\* start + (end - start) * progress
Lerp(start, end, prog) ==
    NumAdd(start, NumMul(NumSub(end, start), prog))

\* ImageUtils.interpolate_value: v is the value returned
interpolate_value(start, end, prog) ==
    IF ~Between(Zero, prog, One)
    THEN [v |-> PyNone, err |-> "ValueError"]
    ELSE IF start.kind = "num" /\ end.kind = "num"
    THEN [v |-> PyNum(Lerp(NumOf(start), NumOf(end), prog)),
          err |-> "none"]
    ELSE IF start.kind = "tuple" /\ end.kind = "tuple"
    THEN IF Len(start.v) # Len(end.v)
         THEN [v |-> PyNone, err |-> "ValueError"]
         ELSE [v |-> PyTuple([k \in DOMAIN start.v |->
                                 Lerp(start.v[k], end.v[k], prog)]),
               err |-> "none"]
    ELSE [v |-> PyNone, err |-> "ValueError"]

\* min(1.0, max(0.0, float(x) / 100))
NormalizeIntensity(x) ==
    LET q == NumDiv(ToFloat(x), PyInt(100))
        lo == IF NumLt(PyFloat(0, 1), q) THEN q ELSE PyFloat(0, 1)
    IN  IF NumLt(lo, PyFloat(1, 1)) THEN lo ELSE PyFloat(1, 1)

\* _validate_effects rewrites params['intensity'] in the caller's dicts, one
\* effect after the other, and raises at the first invalid name
RECURSIVE ValidateFrom(_, _)
ValidateFrom(effect_list, k) ==
    IF k > Len(effect_list)
    THEN [effects |-> effect_list, err |-> "none"]
    ELSE IF effect_list[k].name \notin EffectMapNames
    THEN [effects |-> effect_list, err |-> "ValueError"]
    ELSE LET intensity == effect_list[k].params["intensity"]
             normalized ==
                 IF intensity.kind = "scalar"
                 THEN Scalar(NormalizeIntensity(intensity.a))
                 ELSE IF intensity.kind = "tuple"
                 THEN Range(NormalizeIntensity(intensity.a),
                            NormalizeIntensity(intensity.b))
                 ELSE intensity
         IN  ValidateFrom(
                 [effect_list EXCEPT ![k].params["intensity"] = normalized],
                 k + 1)

_validate_effects(effect_list) == ValidateFrom(effect_list, 1)

\* progress is in [0, 1] wherever generate_frames calls this
_interpolate_parameters(params, prog) ==
    [k \in ParamNames |->
        IF params[k].kind = "tuple"
        THEN Scalar(interpolate_value(PyNum(params[k].a), PyNum(params[k].b),
                                      prog).v.v[1])
        ELSE params[k]]

\* the files of frames_dir: the index k of frame_%04d.png -> the number of
\* the call that wrote the file
NoFiles == [k \in {} |-> 0]

\* processor.save(frame_path): the file is written, over an older one
save(files, index, run) ==
    [k \in DOMAIN files \cup {index} |->
        IF k = index THEN run ELSE files[k]]

\* the frames 0 .. n - 1 saved
SavedUpTo(files, n, run) ==
    [k \in DOMAIN files \cup (0..(n - 1)) |->
        IF k < n THEN run ELSE files[k]]

\* processor.generate_frames as one call: what it raises, or the indices of
\* the frames it returns.  An exception of an effect is caught inside.
generate_frames(effect_list, n) ==
    LET v == Eval("_validate_effects", <<effect_list>>)
    IN  IF v.err # "none"
        THEN [err |-> v.err, effects |-> v.effects, frame_paths |-> <<>>]
        ELSE IF n >= 1 /\ n - 1 = 0
        THEN [err |-> "ZeroDivisionError", effects |-> v.effects,
              frame_paths |-> <<>>]
        ELSE [err |-> "none", effects |-> v.effects,
              frame_paths |-> [k \in 1..n |-> k - 1]]

\* generate_frames as one call on a frames directory: the frames before
\* frame saved are written; with saved < n the save of frame saved fails
generate_frames_on(files, effect_list, n, saved, run) ==
    LET out == generate_frames(effect_list, n)
        failed == out.err = "none" /\ saved < n
    IN  [err |-> IF failed THEN "OSError" ELSE out.err,
         effects |-> out.effects,
         frame_paths |-> IF failed THEN <<>> ELSE out.frame_paths,
         files |-> IF out.err = "none" THEN SavedUpTo(files, saved, run)
                   ELSE files]

\* ffmpeg -i frames_dir/frame_%04d.png: the files frame_0000.png,
\* frame_0001.png, ... as far as they exist
RECURSIVE SequenceOnDisk(_, _)
SequenceOnDisk(files, k) ==
    IF k \notin DOMAIN files THEN <<>>
    ELSE <<k>> \o SequenceOnDisk(files, k + 1)

\* create_video(frame_paths): the exception it raises before ffmpeg runs,
\* and the frames ffmpeg encodes
create_video(files, paths) ==
    IF paths = <<>>
    THEN [err |-> "ValueError", encoded |-> <<>>]
    ELSE IF \E k \in DOMAIN paths : paths[k] \notin DOMAIN files
    THEN [err |-> "FileNotFoundError", encoded |-> <<>>]
    ELSE [err |-> "none", encoded |-> SequenceOnDisk(files, 0)]

----------------------------------------------------------------------------
(* effects/animation_effects.py: easing and interpolate_parameters *)

\* the easing types whose arithmetic is modelled (bounce and elastic are not)
EasingTypes == {"linear", "ease_in", "ease_out", "ease_in_out"}

ease_value(value, easing_type) ==
    IF ~Between(Zero, value, One)
    THEN [v |-> value, err |-> "ValueError"]
    ELSE IF easing_type = "linear" THEN [v |-> value, err |-> "none"]
    ELSE IF easing_type = "ease_in"
    THEN [v |-> NumMul(value, value), err |-> "none"]
    ELSE IF easing_type = "ease_out"
    THEN [v |-> NumSub(One, NumMul(NumSub(One, value), NumSub(One, value))),
          err |-> "none"]
    ELSE IF easing_type = "ease_in_out"
    THEN IF NumLt(value, Half)
         THEN [v |-> NumMul(NumMul(PyInt(2), value), value), err |-> "none"]
         ELSE LET t == NumAdd(NumMul(PyInt(-2), value), PyInt(2))
              IN  [v |-> NumSub(One, NumDiv(NumMul(t, t), PyInt(2))),
                   err |-> "none"]
    ELSE [v |-> value, err |-> "ValueError"]

\* one key of the result of interpolate_parameters; a key missing from a
\* dict counts as 0; zip stops at the end of the shorter tuple
InterpolatedParam(start_val, end_val, eased_progress) ==
    IF start_val.kind = "num" /\ end_val.kind = "num"
    THEN PyNum(Lerp(NumOf(start_val), NumOf(end_val), eased_progress))
    ELSE IF start_val.kind = "tuple" /\ end_val.kind = "tuple"
    THEN PyTuple([k \in 1..(IF Len(start_val.v) < Len(end_val.v)
                            THEN Len(start_val.v) ELSE Len(end_val.v)) |->
                     Lerp(start_val.v[k], end_val.v[k], eased_progress)])
    ELSE IF NumLt(Half, eased_progress) THEN end_val ELSE start_val

\* the dicts are functions from the same keys to values, None for a key a
\* dict does not have; v is the dict returned
interpolate_parameters(start_params, end_params, prog, easing_type) ==
    IF ~Between(Zero, prog, One)
    THEN [v |-> PyNone, err |-> "ValueError"]
    ELSE LET eased == ease_value(prog, easing_type)
             Val(params, key) ==
                 IF params[key].kind = "none" THEN PyNum(Zero)
                 ELSE params[key]
         IN  IF eased.err # "none"
             THEN [v |-> PyNone, err |-> eased.err]
             ELSE [v |-> [key \in {k \in DOMAIN start_params :
                                      \/ start_params[k].kind # "none"
                                      \/ end_params[k].kind # "none"} |->
                            InterpolatedParam(Val(start_params, key),
                                              Val(end_params, key),
                                              eased.v)],
                   err |-> "none"]

----------------------------------------------------------------------------
(* tetimi.py: ImageProcessor.apply_effect *)

\* the keys of the params dict that the dispatcher reads
TetimiKeys == EffectName \cup {"rgbalpha", "coloralpha"}

NoTetimiParams == [k \in TetimiKeys |-> Absent]

\* the upper bound each effect method checks (scan checks none)
TetimiMax(effect_name) ==
    CASE effect_name = "glitch" -> PyInt(50)
      [] effect_name = "chroma" -> PyInt(40)
      [] effect_name \in {"energy", "pulse"} -> PyInt(2)
      [] OTHER -> PyInt(1)

\* base_image is RGBA since __init__; every method returns a new image
ImageProcessor_apply_effect(base, effect_name, params) ==
    LET Failed(e) == [image |-> base, err |-> e, applied |-> <<>>]
    IN  IF effect_name \notin EffectName
        THEN \* no branch matches: return self.base_image
             [image |-> base, err |-> "none", applied |-> <<>>]
        ELSE IF params[effect_name].kind = "absent"
        THEN Failed("KeyError")
        ELSE IF effect_name \in {"rgb", "color"}
        THEN [image |-> Transformed(base, effect_name, Zero),
              err |-> "none", applied |-> <<effect_name>>]
        ELSE IF params[effect_name].kind = "tuple"
        THEN Failed(IF effect_name = "noise" THEN "RangeError"
                    ELSE "TypeError")
        ELSE IF effect_name # "scan"
                /\ ~Between(Zero, params[effect_name].a,
                            TetimiMax(effect_name))
        THEN Failed("RangeError")
        ELSE [image |-> Transformed(base, effect_name,
                                    params[effect_name].a),
              err |-> "none", applied |-> <<effect_name>>]

----------------------------------------------------------------------------
(* tetimi.py: adaptive parameters and ImageProcessor.merge_params *)

\* a dict is the function from its keys to its values
EmptyDict == [k \in {} |-> PyNone]
Item(key, value) == [k \in {key} |-> value]

\* d.update(other)
update(d, other) ==
    [k \in DOMAIN d \cup DOMAIN other |->
        IF k \in DOMAIN other THEN other[k] ELSE d[k]]

Rgb(r, g, b) == PyTuple(<<PyInt(r), PyInt(g), PyInt(b)>>)
Whole(k) == PyNum(PyInt(k))
Hundredths(k) == PyNum(PyFloat(k, 100))

EFFECT_PRESETS ==
    [cyberpunk |->
        [rgb |-> Rgb(20, 235, 215), rgbalpha |-> Whole(75),
         color |-> Rgb(20, 235, 215), coloralpha |-> Whole(50),
         chroma |-> Whole(5), glitch |-> Whole(3), scan |-> Whole(80),
         noise |-> Hundredths(3)],
     vaporwave |->
        [color |-> Rgb(235, 100, 235), coloralpha |-> Whole(85),
         chroma |-> Whole(8), scan |-> Whole(100), noise |-> Hundredths(2),
         rgbalpha |-> Whole(65)],
     glitch_art |->
        [color |-> Rgb(235, 45, 75), coloralpha |-> Whole(90),
         glitch |-> Whole(12), chroma |-> Whole(15), scan |-> Whole(120),
         noise |-> Hundredths(8), rgbalpha |-> Whole(60)],
     retro |->
        [rgb |-> Rgb(65, 215, 95), rgbalpha |-> Whole(50),
         color |-> Rgb(65, 215, 95), coloralpha |-> Whole(50),
         scan |-> Whole(90), noise |-> Hundredths(3)],
     matrix |->
        [color |-> Rgb(25, 225, 95), coloralpha |-> Whole(95),
         scan |-> Whole(70), glitch |-> Whole(2), noise |-> Hundredths(2),
         chroma |-> Whole(3), rgbalpha |-> Whole(45)],
     synthwave |->
        [color |-> Rgb(225, 45, 235), coloralpha |-> Whole(90),
         chroma |-> Whole(7), scan |-> Whole(150), noise |-> Hundredths(2),
         rgbalpha |-> Whole(40)],
     akira |->
        [color |-> Rgb(235, 25, 65), coloralpha |-> Whole(95),
         chroma |-> Whole(8), glitch |-> Whole(6), scan |-> Whole(180),
         noise |-> Hundredths(3), rgbalpha |-> Whole(35)],
     tetsuo |->
        [color |-> Rgb(235, 45, 225), coloralpha |-> Whole(100),
         chroma |-> Whole(10), glitch |-> Whole(6), scan |-> Whole(160),
         noise |-> Hundredths(5), pulse |-> Hundredths(15),
         rgbalpha |-> Whole(30)],
     neo_tokyo |->
        [rgb |-> Rgb(235, 35, 85), rgbalpha |-> Whole(25),
         color |-> Rgb(235, 35, 85), coloralpha |-> Whole(85),
         chroma |-> Whole(12), glitch |-> Whole(8), scan |-> Whole(140),
         noise |-> Hundredths(4), pulse |-> Hundredths(10)],
     psychic |->
        [color |-> Rgb(185, 25, 235), coloralpha |-> Whole(95),
         chroma |-> Whole(15), glitch |-> Whole(5), scan |-> Whole(130),
         noise |-> Hundredths(3), energy |-> Hundredths(20),
         rgbalpha |-> Whole(85)],
     tetsuo_rage |->
        [color |-> Rgb(225, 24, 42), coloralpha |-> Whole(120),
         chroma |-> Whole(20), glitch |-> Whole(25), scan |-> Whole(50),
         noise |-> Hundredths(15), energy |-> Hundredths(20),
         pulse |-> Hundredths(20), rgbalpha |-> Whole(90)]]

\* the parameters get_adaptive_params has a rule for
AdaptiveKeys == {"coloralpha", "glitch", "chroma", "noise", "scan"}

\* the value the rule of key derives from the statistics of the image
AdaptiveValue(analysis, key) ==
    LET one == PyFloat(1, 1)
        Scaled(k, x) == Whole(PyTrunc(NumMul(PyInt(k), NumSub(one, x))))
    IN  CASE key = "coloralpha" ->
                 Scaled(255,
                        NumAdd(NumMul(analysis.brightness, PyFloat(7, 10)),
                               NumMul(analysis.contrast, PyFloat(3, 10))))
          [] key = "glitch" ->
                 Scaled(20, NumMul(analysis.complexity, PyFloat(8, 10)))
          [] key = "chroma" ->
                 Scaled(20,
                        NumMul(NumDiv(analysis.color_variance, PyInt(255)),
                               PyFloat(9, 10)))
          [] key = "noise" ->
                 PyNum(ToFloat(
                     NumAdd(NumMul(analysis.contrast, PyFloat(5, 10)),
                            NumMul(analysis.brightness, PyFloat(5, 10)))))
          [] key = "scan" -> Scaled(10, analysis.complexity)

\* ImageAnalyzer.get_adaptive_params: a value for every key with a rule
\* that is a key of the user's dict or of the preset
get_adaptive_params(analysis, user_params, preset_params) ==
    LET requested_effects == DOMAIN user_params \cup DOMAIN preset_params
    IN  [k \in AdaptiveKeys \cap requested_effects |->
            AdaptiveValue(analysis, k)]

\* EFFECT_PRESETS.get(user_params.get('preset'), {})
PresetOf(user_params) ==
    IF /\ "preset" \in DOMAIN user_params
       /\ user_params["preset"].kind = "str"
       /\ user_params["preset"].str \in DOMAIN EFFECT_PRESETS
    THEN EFFECT_PRESETS[user_params["preset"].str]
    ELSE EmptyDict

\* the merge with the preset written last, over the user's values
merge_params_PresetWins(analysis, user_params) ==
    LET preset_params == PresetOf(user_params)
        adaptive_params ==
            get_adaptive_params(analysis, user_params, preset_params)
        merged == adaptive_params
    IN  update(update(merged, user_params), preset_params)

\* ImageProcessor.merge_params, on a processor whose image has the
\* statistics analysis: the merged dict
merge_params(analysis, user_params) ==
    LET preset_params == PresetOf(user_params)
        adaptive_params ==
            get_adaptive_params(analysis, user_params, preset_params)
        merged == adaptive_params
    IN  update(update(merged, preset_params), user_params)

----------------------------------------------------------------------------
(* core/ascii_processor.py and tetimi.py: conversion to ASCII art *)

\* rows = int(height / h), where w = width / cols and h = w / scale
CellWidth(width, cols) == NumDiv(PyInt(width), PyInt(cols))
CellHeight(width, cols, scale) == NumDiv(CellWidth(width, cols), scale)
GridRows(width, height, cols, scale) ==
    PyTrunc(NumDiv(PyInt(height), CellHeight(width, cols, scale)))

\* the ASCII art as the list of the lengths of its lines, one character for
\* each pixel of a row or for each tile
AsciiLines(rows, cols) == [k \in 1..rows |-> cols]

\* ASCIIProcessor.convert_to_ascii: the image is resized to cols x rows,
\* with another filter when the grid has more columns or rows than the image
\* has pixels, and every pixel of the resized image becomes a character.
\* Image.resize refuses a size with a side below 1.
convert_to_ascii(image, cols, scale, detailed) ==
    LET rows == GridRows(image.w, image.h, cols, scale)
        filter == IF cols > image.w \/ rows > image.h THEN "LANCZOS"
                  ELSE "NEAREST"
    IN  IF rows < 1
        THEN [err |-> "ValueError", filter |-> filter, lines |-> <<>>]
        ELSE [err |-> "none", filter |-> filter,
              lines |-> AsciiLines(rows, cols)]

\* the tile of row or column k of n: int(k * size) up to int((k + 1) * size),
\* the last one up to the side of the image
Tile(k, n, size, side) ==
    [lo |-> PyTrunc(NumMul(PyInt(k), size)),
     hi |-> IF k = n - 1 THEN side
            ELSE PyTrunc(NumMul(PyInt(k + 1), size))]

\* a crop without pixels: its mean is nan, and int(nan) raises ValueError
EmptyTile(t) == t.hi <= t.lo

\* ImageProcessor.convertImageToAscii: refuses a grid with more columns or
\* rows than the image has pixels, and otherwise takes the mean of every
\* tile, row by row, one character for each tile
convertImageToAscii(base, cols, scale, moreLevels) ==
    LET W == base.w
        H == base.h
        w == CellWidth(W, cols)
        h == CellHeight(W, cols, scale)
        rows == GridRows(W, H, cols, scale)
    IN  IF cols > W \/ rows > H
        THEN [err |-> "ValueError", filter |-> "none", lines |-> <<>>]
        ELSE IF /\ rows >= 1
                /\ \/ \E jj \in 0..(rows - 1) : EmptyTile(Tile(jj, rows, h, H))
                   \/ \E ii \in 0..(cols - 1) : EmptyTile(Tile(ii, cols, w, W))
        THEN [err |-> "ValueError", filter |-> "none", lines |-> <<>>]
        ELSE [err |-> "none", filter |-> "none",
              lines |-> AsciiLines(rows, cols)]

\* the character ramps, by their lengths: basic_chars and detailed_chars of
\* ASCIIProcessor, gscale1 and gscale2 of convertImageToAscii
basic_chars == 10
detailed_chars == 23
gscale1 == 70
gscale2 == 10

\* the largest value of a pixel of an image of mode L
MaxPixel == 255

\* char_idx multiplied by the length of the ramp
char_idx_ByLength(pixel, detailed) ==
    LET chars == IF detailed THEN detailed_chars ELSE basic_chars
    IN  PyTrunc(NumMul(NumDiv(PyInt(pixel), PyInt(255)), PyInt(chars)))

\* convert_to_ascii: char_idx = int((pixel / 255) * (len(chars) - 1))
char_idx(pixel, detailed) ==
    LET chars == IF detailed THEN detailed_chars ELSE basic_chars
    IN  PyTrunc(NumMul(NumDiv(PyInt(pixel), PyInt(255)), PyInt(chars - 1)))

\* convertImageToAscii: the index of gsval, int((avg*69)/255) into gscale1
\* or int((avg*9)/255) into gscale2
gsval(avg, moreLevels) ==
    IF moreLevels
    THEN PyTrunc(NumDiv(PyInt(avg * 69), PyInt(255)))
    ELSE PyTrunc(NumDiv(PyInt(avg * 9), PyInt(255)))

----------------------------------------------------------------------------
(* Inputs *)

EffectSpec(name, params) == [name |-> name, params |-> params]

Intensity(name, v) == EffectSpec(name, With(NoParams, "intensity", Scalar(v)))
Offset(v) == EffectSpec("chroma", With(NoParams, "offset", Scalar(v)))
Scan(gap, opacity) ==
    EffectSpec("scan", With(With(NoParams, "gap", Scalar(gap)),
                            "opacity", Scalar(opacity)))

BaseImages ==
    {Img("RGB", 20, 20), Img("RGBA", 20, 20), Img("RGB", 300, 250)}

\* a name outside EFFECT_ORDER
UnknownNames == {"sepia"}

\* the bounds of the ranges, one unit beyond them, and values in between
ValueGrid ==
    {PyInt(-1), PyInt(0), PyFloat(1, 25), PyFloat(1, 2), PyFloat(3, 5),
     PyInt(1), PyInt(2), PyInt(3)}

GapGrid == {PyInt(0), PyInt(1), PyInt(2), PyFloat(5, 2)}

AllSpecs ==
    {Intensity(name, v) :
        name \in {"glitch", "noise", "energy", "pulse", "consciousness"},
        v \in ValueGrid}
    \cup {Offset(v) : v \in ValueGrid}
    \cup {Scan(g, o) : g \in GapGrid, o \in ValueGrid}
    \cup {EffectSpec(name, NoParams) : name \in EffectName \cup UnknownNames}

\* the effects a processor is driven with over several calls
SomeSpecs ==
    {Intensity("glitch", Half), Offset(Half), Scan(PyInt(2), Half),
     Intensity("noise", PyInt(0)), Intensity("pulse", Half),
     Intensity("consciousness", PyFloat(3, 5)),
     Intensity("energy", PyInt(2)), EffectSpec("rgb", NoParams)}

\* the effects of an effect list
ListSpecs ==
    {Intensity("glitch", Half), Scan(PyInt(2), Half), Offset(Half),
     Intensity("pulse", PyInt(2)), EffectSpec("color", NoParams)}

\* the effect lists a processor is driven with over several calls: one that
\* succeeds and one whose second effect fails
SomeLists ==
    {<<Scan(PyInt(2), Half), Intensity("glitch", Half)>>,
     <<Offset(Half), Intensity("pulse", PyInt(2))>>}

\* the sizes a processor is resized to
Sizes == {<<10, 10>>}

\* the lists of at most n elements of S
SeqsUpTo(S, n) == UNION {[1..k -> S] : k \in 0..n}

EffectLists == SeqsUpTo(ListSpecs, MaxEffects)

TetimiSpecs ==
    {EffectSpec(name, With(NoTetimiParams, name, Scalar(v))) :
        name \in EffectName, v \in {PyInt(-1), Half, PyInt(1), PyInt(2),
                                    PyInt(3), PyInt(51)}}
    \cup {EffectSpec(name, NoTetimiParams) : name \in UnknownNames}

RangeOf(name, key, s, e) ==
    EffectSpec(name, With(NoParams, key, Range(s, e)))

\* the effects of an animation: ranges and scalars, intensities given as
\* fractions and as percentages, a scalar intensity, effects that fail on
\* every frame, on no frame and on some frames, and a name the validation
\* refuses
AnimSpecs ==
    {RangeOf("glitch", "intensity", PyFloat(3, 10), PyFloat(4, 5)),
     RangeOf("pulse", "intensity", PyInt(30), PyInt(80)),
     RangeOf("chroma", "offset", PyFloat(1, 5), PyFloat(2, 5)),
     RangeOf("chroma", "offset", Half, PyFloat(3, 2)),
     Scan(PyInt(2), Half),
     Intensity("energy", Half),
     EffectSpec("scan", With(With(NoParams, "gap", Range(PyInt(2), PyInt(4))),
                             "opacity", Range(PyFloat(2, 5), PyFloat(3, 5)))),
     Offset(PyInt(2)),
     EffectSpec("rgb", NoParams)}

AnimEffectLists == SeqsUpTo(AnimSpecs, MaxEffects)

AnimImages == BaseImages \cup {Img("RGB", 101, 77)}

\* the effect lists of repeated generate_frames calls: one the validation
\* accepts and one it refuses
RunLists == {<<Scan(PyInt(2), Half)>>, <<EffectSpec("rgb", NoParams)>>}

\* the numbers, tuples and progress values interpolation is called with:
\* ints and floats, tuples of one, two and three numbers, a string, progress
\* inside and outside [0, 1]
InterpNumbers ==
    {PyInt(0), PyInt(1), PyInt(3), PyFloat(1, 5), PyFloat(3, 10), Half,
     PyFloat(9, 10)}

InterpTuples ==
    {<<PyFloat(1, 5)>>, <<PyFloat(1, 5), PyFloat(9, 10)>>,
     <<PyFloat(9, 10), PyFloat(1, 5)>>, <<PyInt(1), PyInt(3)>>,
     <<PyFloat(1, 5), PyFloat(9, 10), PyFloat(3, 10)>>}

InterpValues ==
    {PyNum(x) : x \in InterpNumbers} \cup {PyTuple(t) : t \in InterpTuples}
    \cup {PyStr("linear")}

InterpProgress ==
    {PyInt(0), PyInt(1), PyInt(2), PyFloat(0, 1), PyFloat(1, 3), Half,
     PyFloat(1, 1), PyFloat(-1, 2), PyFloat(3, 2)}

\* the widths and heights of the images an animation is made from
CanvasSides == (1..MaxSide) \cup {77, 78, 101, 102}

\* the images, column counts and scales of the ASCII conversions
AsciiSizes == ((1..MaxSide) \X (1..MaxSide)) \cup {<<100, 50>>}
AsciiCols == (1..(MaxSide + 1)) \cup {50, 500}
AsciiScales == {PyFloat(43, 100), PyFloat(11, 10), PyFloat(2, 1)}

\* the statistics of an image: brightness, contrast and complexity are in
\* [0, 1], the colour variance is a standard deviation of channel means
Analyses ==
    [brightness : {PyFloat(1, 2), PyFloat(1, 1)},
     contrast : {PyFloat(0, 1), PyFloat(1, 4)},
     color_variance : {PyFloat(0, 1), PyFloat(51, 1)},
     complexity : {PyFloat(0, 1), PyFloat(1, 2), PyFloat(1, 1)}]

\* an explicit value of the user for a parameter with an adaptive rule
UserValue(key) ==
    CASE key = "coloralpha" -> Whole(100)
      [] key = "glitch" -> Whole(5)
      [] key = "chroma" -> Whole(7)
      [] key = "noise" -> Hundredths(5)
      [] key = "scan" -> Whole(60)

\* the user's dict: no preset, a preset or a name that is no preset, and
\* explicit values for none, one or two of the adaptive parameters
UserParams ==
    {update(update(p, e1), e2) :
        p \in {EmptyDict}
               \cup {Item("preset", PyStr(name)) :
                        name \in {"cyberpunk", "retro", "matrix",
                                  "tetsuo_rage", "noir"}},
        e1 \in {EmptyDict}
                \cup {Item(k, UserValue(k)) : k \in AdaptiveKeys},
        e2 \in {EmptyDict, Item("glitch", UserValue("glitch"))}}

\* the operations by name: those on numbers, the functions of the source
\* that the actions call, and the sets of inputs the actions draw from
Eval(op, a) ==
    CASE op = "Num" -> NumImpl(a[1], a[2], a[3], a[4])
      [] op = "RoundFloat" -> RoundFloatImpl(a[1], a[2], a[3], a[4])
      [] op = "PyInt" -> PyIntImpl(a[1])
      [] op = "ToFloat" -> ToFloatImpl(a[1])
      [] op = "ExactAdd" -> ExactAddImpl(a[1], a[2])
      [] op = "NumAdd" -> NumAddImpl(a[1], a[2])
      [] op = "NumSub" -> NumSubImpl(a[1], a[2])
      [] op = "NumMul" -> NumMulImpl(a[1], a[2])
      [] op = "NumDiv" -> NumDivImpl(a[1], a[2])
      [] op = "PyFloat" -> PyFloatImpl(a[1], a[2])
      [] op = "NumLeq" -> NumLeqImpl(a[1], a[2])
      [] op = "NumLt" -> NumLtImpl(a[1], a[2])
      [] op = "PyTrunc" -> PyTruncImpl(a[1])
      [] op = "apply_effect" -> apply_effect(a[1], a[2], a[3])
      [] op = "fx_apply_consciousness_effect" ->
             fx_apply_consciousness_effect(a[1], a[2])
      [] op = "ValueGrid" -> ValueGrid
      [] op = "apply_effects_sequence" -> apply_effects_sequence(a[1], a[2])
      [] op = "create_animation_frame" ->
             create_animation_frame(a[1], a[2], a[3])
      [] op = "ImageProcessor_apply_effect" ->
             ImageProcessor_apply_effect(a[1], a[2], a[3])
      [] op = "create_effect_animation" ->
             create_effect_animation(a[1], a[2], a[3], a[4])
      [] op = "interpolate_value" -> interpolate_value(a[1], a[2], a[3])
      [] op = "interpolate_parameters" ->
             interpolate_parameters(a[1], a[2], a[3], a[4])
      [] op = "AnimationProcessor_init" -> AnimationProcessor_init(a[1])
      [] op = "convert_to_ascii" -> convert_to_ascii(a[1], a[2], a[3], a[4])
      [] op = "convertImageToAscii" ->
             convertImageToAscii(a[1], a[2], a[3], a[4])
      [] op = "_validate_effects" -> _validate_effects(a[1])
      [] op = "_interpolate_parameters" -> _interpolate_parameters(a[1], a[2])
      [] op = "AllSpecs" -> AllSpecs
      [] op = "SomeSpecs" -> SomeSpecs
      [] op = "SomeLists" -> SomeLists
      [] op = "EffectLists" -> EffectLists
      [] op = "TetimiSpecs" -> TetimiSpecs
      [] op = "AnimSpecs" -> AnimSpecs
      [] op = "AnimEffectLists" -> AnimEffectLists
      [] op = "RunLists" -> RunLists
      [] op = "char_idx" -> char_idx(a[1], a[2])
      [] op = "gsval" -> gsval(a[1], a[2])
      [] op = "generate_frames_on" ->
             generate_frames_on(a[1], a[2], a[3], a[4], a[5])
      [] op = "InterpValues" -> InterpValues
      [] op = "InterpProgress" -> InterpProgress
      [] op = "AsciiScales" -> AsciiScales
      [] op = "Zero" -> Zero
      [] op = "One" -> One
      [] op = "Half" -> Half
      [] op = "merge_params" -> merge_params(a[1], a[2])
      [] op = "Analyses" -> Analyses
      [] op = "UserParams" -> UserParams

NamesOf(effect_list) ==
    [k \in DOMAIN effect_list |-> effect_list[k].name]

----------------------------------------------------------------------------
(* State *)

VARIABLES
    original_image,   \* BaseImageProcessor.original_image
    current_image,    \* BaseImageProcessor.current_image
    history,          \* BaseImageProcessor.history
    calls,            \* the calls made so far and how each ended
    base_image,       \* AnimationProcessor.base_image
    effects,          \* generate_frames: the caller's effect list
    given,            \* the effect list as it was when the call was made
    num_frames,       \* generate_frames: num_frames
    pc,               \* generate_frames: where the call is
    i,                \* generate_frames: the frame index
    j,                \* generate_frames: the position in the effect list
    progress,         \* generate_frames: progress of frame i
    attempts,         \* the effects tried on frame i: name, parameters, error
    frame_paths,      \* generate_frames: the frames saved so far
    raised,           \* the exception generate_frames raised, or "none"
    command,          \* animate_command: where the run is
    temp_dir,         \* AnimationProcessor.temp_dir on disk
    frames_dir,       \* the files of AnimationProcessor.frames_dir
    exc               \* animate_command: the exception in flight, or "none"

pvars == <<original_image, current_image, history>>
avars == <<base_image, effects, given, num_frames, pc, i, j, progress,
           attempts, frame_paths, raised>>
cvars == <<command, temp_dir, frames_dir, exc>>
vars == <<original_image, current_image, history, calls, base_image, effects,
          given, num_frames, pc, i, j, progress, attempts, frame_paths,
          raised, command, temp_dir, frames_dir, exc>>

Self == Proc(original_image, current_image, history)

\* one entry of calls: the operation, the effect list passed, the exception
\* raised ("none" when it returned), the value returned by undo, the names
\* of the effects that were applied, in the order applied, and for an
\* animation the number of frames asked for and the frames returned
Call(op, effect_list, err, ret, applied) ==
    [op |-> op, effects |-> effect_list, err |-> err, ret |-> ret,
     applied |-> applied, num_frames |-> 0, frames |-> <<>>]

Last == calls[Len(calls)]

Becomes(P) ==
    /\ original_image' = P.original_image
    /\ current_image' = P.current_image
    /\ history' = P.history

\* a call on an EffectProcessor: its state becomes P and the call is noted
Called(P, call) ==
    /\ Becomes(P)
    /\ calls' = Append(calls, call)
    /\ UNCHANGED <<avars, cvars>>

\* no generate_frames call has been made
AnimIdle ==
    /\ effects = <<>>
    /\ given = <<>>
    /\ num_frames = 0
    /\ pc = "idle"
    /\ i = 0
    /\ j = 0
    /\ progress = Zero
    /\ attempts = <<>>
    /\ frame_paths = <<>>
    /\ raised = "none"

\* no animate command is running; absent: no temporary directory was made
NoCommand ==
    /\ command = "idle"
    /\ temp_dir = "absent"
    /\ frames_dir = NoFiles
    /\ exc = "none"

\* an EffectProcessor constructed from an image
Init ==
    /\ \E image_input \in BaseImages :
          /\ original_image = NewProcessor(image_input).original_image
          /\ current_image = NewProcessor(image_input).current_image
          /\ history = NewProcessor(image_input).history
          /\ base_image = image_input
    /\ calls = <<>>
    /\ AnimIdle
    /\ NoCommand

\* an AnimationProcessor constructed from an image; the processor variables
\* hold the EffectProcessor of the frame being rendered
InitAnim ==
    /\ \E image_input \in AnimImages :
          /\ base_image = Eval("AnimationProcessor_init", <<image_input>>)
          /\ original_image = base_image
          /\ current_image = base_image
          /\ history = <<>>
    /\ calls = <<>>
    /\ AnimIdle
    /\ command = "idle"
    /\ temp_dir = "present"
    /\ frames_dir = NoFiles
    /\ exc = "none"

----------------------------------------------------------------------------
(* Operations of one EffectProcessor *)

ApplyEffect(S) ==
    \E e \in S :
       LET out == Eval("apply_effect", <<Self, e.name, e.params>>)
       IN  Called(out.p,
                  Call("apply_effect", <<e>>, out.err, out.err = "none",
                       IF out.err = "none" THEN <<e.name>> ELSE <<>>))

ApplyEffectsSequence ==
    /\ calls = <<>>
    /\ \E effect_list \in Eval("EffectLists", <<>>) :
       LET out == Eval("apply_effects_sequence", <<Self, effect_list>>)
       IN  Called(out.p,
                  Call("apply_effects_sequence", effect_list, out.err,
                       out.err = "none", out.applied))

Undo ==
    /\ Len(calls) < MaxCalls
    /\ LET out == undo(Self)
       IN  Called(out.p, Call("undo", <<>>, "none", out.ret, <<>>))

Reset ==
    /\ Len(calls) < MaxCalls
    /\ Called(reset(Self), Call("reset", <<>>, "none", TRUE, <<>>))

\* the caller gets a copy; the processor is unchanged
GetCurrentImage ==
    /\ Len(calls) < MaxCalls
    /\ get_current_image(Self) = current_image
    /\ Called(Self, Call("get_current_image", <<>>, "none", TRUE, <<>>))

\* apply_effect on a processor in any state a run of calls can leave it in
ApplyEffectAgain ==
    /\ Len(calls) < MaxCalls
    /\ ApplyEffect(Eval("SomeSpecs", <<>>))

\* apply_effects_sequence on a processor in any state
ApplyEffectsSequenceAgain ==
    /\ Len(calls) < MaxCalls
    /\ \E effect_list \in Eval("SomeLists", <<>>) :
          LET out == Eval("apply_effects_sequence", <<Self, effect_list>>)
          IN  Called(out.p,
                     Call("apply_effects_sequence", effect_list, out.err,
                          out.err = "none", out.applied))

Resize ==
    /\ Len(calls) < MaxCalls
    /\ \E size \in Sizes :
          Called(resize(Self, size), Call("resize", <<>>, "none", TRUE, <<>>))

\* adjust_brightness, adjust_contrast, apply_blur and apply_color_overlay
Adjust ==
    /\ Len(calls) < MaxCalls
    /\ \E op \in {"adjust_brightness", "adjust_contrast", "apply_blur",
                   "apply_color_overlay"} :
          LET P == CASE op = "adjust_brightness" ->
                            adjust_brightness(Self, Half)
                     [] op = "adjust_contrast" -> adjust_contrast(Self, Half)
                     [] op = "apply_blur" -> apply_blur(Self, PyInt(2))
                     [] op = "apply_color_overlay" ->
                            apply_color_overlay(Self, 128)
          IN  Called(P, Call(op, <<>>, "none", TRUE, <<>>))

Next ==
    \/ ApplyEffectAgain
    \/ ApplyEffectsSequenceAgain
    \/ Resize
    \/ Adjust
    \/ Undo
    \/ Reset
    \/ GetCurrentImage

Spec == Init /\ [][Next]_vars

----------------------------------------------------------------------------
(* The dispatchers, one call each *)

\* the library dispatcher, on the image the processor was given
CreateAnimationFrame ==
    /\ calls = <<>>
    /\ \E effect_list \in Eval("EffectLists", <<>>)
                         \cup {<<e>> : e \in Eval("AllSpecs", <<>>)},
       p \in {Zero, Half, One} :
       LET out == Eval("create_animation_frame",
                       <<original_image, effect_list, p>>)
       IN  Called(Self,
                  Call("create_animation_frame", effect_list, out.err,
                       out.err = "none", out.applied))

\* tetimi's processor, constructed from the same image
TetimiApplyEffect ==
    /\ calls = <<>>
    /\ \E e \in Eval("TetimiSpecs", <<>>) :
       LET out == Eval("ImageProcessor_apply_effect",
                       <<Convert(original_image, "RGBA"), e.name, e.params>>)
       IN  Called(Self,
                  Call("ImageProcessor.apply_effect", <<e>>, out.err,
                       out.err = "none", out.applied))

CreateEffectAnimation ==
    /\ calls = <<>>
    /\ \E e \in Eval("AnimSpecs", <<>>), n \in 0..MaxFrames :
       LET out == Eval("create_effect_animation",
                       <<Self, e.name, e.params, n>>)
       IN  Called(out.p,
                  [Call("create_effect_animation", <<e>>, out.err,
                        out.err = "none", <<>>)
                     EXCEPT !.num_frames = n, !.frames = out.frames])

\* the library's composite effect, on the image the processor was given;
\* applied holds the calls it made to the other library functions
ApplyConsciousnessEffect ==
    /\ calls = <<>>
    /\ \E v \in Eval("ValueGrid", <<>>) :
       LET out == Eval("fx_apply_consciousness_effect", <<original_image, v>>)
       IN  Called(Self,
                  Call("advanced_effects.apply_consciousness_effect",
                       <<Intensity("consciousness", v)>>, out.err,
                       out.err = "none", out.made))

\* apply_effect as the first call on a freshly constructed processor, over
\* the whole input grid
ApplyEffectOnce ==
    /\ calls = <<>>
    /\ ApplyEffect(Eval("AllSpecs", <<>>))

\* one call on a freshly constructed processor
NextCall ==
    \/ ApplyEffectOnce
    \/ ApplyEffectsSequence
    \/ CreateAnimationFrame
    \/ TetimiApplyEffect
    \/ CreateEffectAnimation
    \/ ApplyConsciousnessEffect

SpecCall == Init /\ [][NextCall]_vars

----------------------------------------------------------------------------
(* The functions without state, one call each *)

\* a call of a function: its arguments, the exception it raised or "none",
\* and the value it returned
PureCall(op, args, err, ret) ==
    [op |-> op, args |-> args, err |-> err, ret |-> ret]

InitPure ==
    /\ original_image = Img("RGB", 20, 20)
    /\ current_image = original_image
    /\ history = <<>>
    /\ base_image = original_image
    /\ calls = <<>>
    /\ AnimIdle
    /\ NoCommand

InterpolateValue ==
    /\ calls = <<>>
    /\ \E start \in Eval("InterpValues", <<>>),
          end \in Eval("InterpValues", <<>>),
          p \in Eval("InterpProgress", <<>>) :
          LET out == Eval("interpolate_value", <<start, end, p>>)
          IN  Called(Self, PureCall("interpolate_value", <<start, end, p>>,
                                    out.err, out.v))

\* dicts of one key
InterpolateParameters ==
    /\ calls = <<>>
    /\ \E start \in Eval("InterpValues", <<>>) \cup {PyNone},
          end \in Eval("InterpValues", <<>>) \cup {PyNone},
          p \in Eval("InterpProgress", <<>>),
          easing_type \in EasingTypes \cup {"cubic"} :
          LET out == Eval("interpolate_parameters",
                          <<[key \in {"intensity"} |-> start],
                            [key \in {"intensity"} |-> end],
                            p, easing_type>>)
          IN  Called(Self, PureCall("interpolate_parameters",
                                    <<start, end, p, easing_type>>,
                                    out.err, out.v))

\* the construction of an AnimationProcessor from a loaded image
NewAnimationProcessor ==
    /\ calls = <<>>
    /\ \E mode \in {"RGB", "RGBA"}, w \in CanvasSides, h \in CanvasSides :
          Called(Self, PureCall("AnimationProcessor", <<Img(mode, w, h)>>,
                                "none",
                                Eval("AnimationProcessor_init",
                                     <<Img(mode, w, h)>>)))

\* ASCIIProcessor.convert_to_ascii on a loaded image, with the character set
\* of the default
ConvertToAscii ==
    /\ calls = <<>>
    /\ \E size \in AsciiSizes, cols \in AsciiCols,
          scale \in Eval("AsciiScales", <<>>) :
          LET image == Img("RGB", size[1], size[2])
              detailed == TRUE
              out == Eval("convert_to_ascii", <<image, cols, scale, detailed>>)
          IN  Called(Self, PureCall("convert_to_ascii",
                                    <<image, cols, scale, detailed>>,
                                    out.err, out.lines))

\* ImageProcessor.convertImageToAscii on the processor's base image, with
\* the character set of the default
ConvertImageToAscii ==
    /\ calls = <<>>
    /\ \E size \in AsciiSizes, cols \in AsciiCols,
          scale \in Eval("AsciiScales", <<>>) :
          LET image == Img("RGB", size[1], size[2])
              moreLevels == TRUE
              out == Eval("convertImageToAscii",
                          <<image, cols, scale, moreLevels>>)
          IN  Called(Self, PureCall("convertImageToAscii",
                                    <<image, cols, scale, moreLevels>>,
                                    out.err, out.lines))

\* ImageProcessor.merge_params on a processor whose image has the given
\* statistics
MergeParams ==
    /\ calls = <<>>
    /\ \E analysis \in Eval("Analyses", <<>>),
          user_params \in Eval("UserParams", <<>>) :
          Called(Self, PureCall("merge_params", <<analysis, user_params>>,
                                "none",
                                Eval("merge_params",
                                     <<analysis, user_params>>)))

\* the character chosen for one pixel value (convert_to_ascii) or for the
\* mean of one tile (convertImageToAscii), on either ramp
RampIndex ==
    /\ calls = <<>>
    /\ \E op \in {"char_idx", "gsval"}, v \in 0..MaxPixel, more \in BOOLEAN :
          Called(Self, PureCall(op, <<v, more>>, "none",
                                Eval(op, <<v, more>>)))

NextPure ==
    \/ RampIndex
    \/ NewAnimationProcessor
    \/ InterpolateValue
    \/ InterpolateParameters
    \/ ConvertToAscii
    \/ ConvertImageToAscii
    \/ MergeParams

SpecPure == InitPure /\ [][NextPure]_vars

----------------------------------------------------------------------------
(* AnimationProcessor.generate_frames, step by step *)

\* the call: frame_paths = [] and self._validate_effects(effects)
GenerateFrames ==
    /\ pc = "idle"
    /\ \E effect_list \in Eval("AnimEffectLists", <<>>), n \in 0..MaxFrames :
          LET v == Eval("_validate_effects", <<effect_list>>)
          IN  /\ given' = effect_list
              /\ num_frames' = n
              /\ effects' = v.effects
              /\ raised' = v.err
              /\ pc' = IF v.err = "none" THEN "loop" ELSE "raised"
    /\ i' = 0
    /\ frame_paths' = <<>>
    /\ UNCHANGED <<cvars, pvars, calls, base_image, j, progress, attempts>>

\* the loop body with one processor made for frame 0 and used for all frames
FrameStart_OneProcessor ==
    /\ pc = "loop"
    /\ i < num_frames
    /\ IF num_frames - 1 = 0
       THEN /\ raised' = "ZeroDivisionError"
            /\ pc' = "raised"
            /\ UNCHANGED <<pvars, j, progress, attempts>>
       ELSE /\ progress' = PyFloat(i, num_frames - 1)
            /\ IF i = 0 THEN Becomes(NewProcessor(base_image))
               ELSE UNCHANGED pvars
            /\ j' = 1
            /\ attempts' = <<>>
            /\ pc' = "effects"
            /\ UNCHANGED raised
    /\ UNCHANGED <<cvars, calls, base_image, effects, given, num_frames, i,
                   frame_paths>>

\* the head of the loop body: progress, and a processor on a copy of the
\* base image
FrameStart ==
    /\ pc = "loop"
    /\ i < num_frames
    /\ IF num_frames - 1 = 0
       THEN /\ raised' = "ZeroDivisionError"
            /\ pc' = "raised"
            /\ UNCHANGED <<pvars, j, progress, attempts>>
       ELSE /\ progress' = PyFloat(i, num_frames - 1)
            /\ Becomes(NewProcessor(base_image))
            /\ j' = 1
            /\ attempts' = <<>>
            /\ pc' = "effects"
            /\ UNCHANGED raised
    /\ UNCHANGED <<cvars, calls, base_image, effects, given, num_frames, i,
                   frame_paths>>

\* the inner loop without its try/except: the exception ends the call
ApplyFrameEffect_NoCatch ==
    /\ pc = "effects"
    /\ j <= Len(effects)
    /\ LET frame_params == Eval("_interpolate_parameters",
                                <<effects[j].params, progress>>)
           out == Eval("apply_effect", <<Self, effects[j].name, frame_params>>)
       IN  /\ Becomes(out.p)
           /\ attempts' = Append(attempts,
                  Attempt(effects[j].name, frame_params, out.err))
           /\ pc' = IF out.err = "none" THEN pc ELSE "raised"
           /\ raised' = out.err
    /\ j' = j + 1
    /\ UNCHANGED <<cvars, calls, base_image, effects, given, num_frames, i,
                   progress, frame_paths>>

\* one round of the inner loop: an exception of apply_effect is logged and
\* the loop goes on
ApplyFrameEffect ==
    /\ pc = "effects"
    /\ j <= Len(effects)
    /\ LET frame_params == Eval("_interpolate_parameters",
                                <<effects[j].params, progress>>)
           out == Eval("apply_effect", <<Self, effects[j].name, frame_params>>)
       IN  /\ Becomes(out.p)
           /\ attempts' = Append(attempts,
                  Attempt(effects[j].name, frame_params, out.err))
    /\ j' = j + 1
    /\ UNCHANGED <<cvars, calls, base_image, effects, given, num_frames, pc,
                   i, progress, frame_paths, raised>>

\* processor.save(frame_path); frame_paths.append(frame_path)
SaveFrame ==
    /\ pc = "effects"
    /\ j > Len(effects)
    /\ frames_dir' = save(frames_dir, i, Len(calls) + 1)
    /\ frame_paths' = Append(frame_paths,
           Frame(i, current_image, original_image, progress, attempts))
    /\ i' = i + 1
    /\ pc' = "loop"
    /\ UNCHANGED <<command, temp_dir, exc, pvars, calls, base_image, effects,
                   given, num_frames, j, progress, attempts, raised>>

ReturnFrames ==
    /\ pc = "loop"
    /\ i >= num_frames
    /\ pc' = "returned"
    /\ UNCHANGED <<cvars, pvars, calls, base_image, effects, given,
                   num_frames, i, j, progress, attempts, frame_paths, raised>>

NextAnim ==
    \/ GenerateFrames
    \/ FrameStart
    \/ ApplyFrameEffect
    \/ SaveFrame
    \/ ReturnFrames

SpecAnim == InitAnim /\ [][NextAnim]_vars

----------------------------------------------------------------------------
(* bot.py: one run of the animate command *)

\* AnimationProcessor.cleanup: the temporary directory is removed if it
\* exists
cleanup_KeepsDirectory(dir) == dir

cleanup(dir) == IF dir = "present" THEN "removed" ELSE dir

\* what an await on Discord can raise: a failed request, and the
\* cancellation of the task, which is no Exception
AwaitErrors == {"HTTPException", "CancelledError"}

\* the command was invoked
InitAnimate ==
    /\ original_image = Img("RGB", 20, 20)
    /\ current_image = original_image
    /\ history = <<>>
    /\ base_image = original_image
    /\ calls = <<>>
    /\ AnimIdle
    /\ command = "parse"
    /\ temp_dir = "absent"
    /\ frames_dir = NoFiles
    /\ exc = "none"

\* the command leaves the try block of the processor with exception e
Raises(e) ==
    /\ exc' = e
    /\ command' = "finally"

\* command_parser.parse_command: the command, or ValueError
ParseCommand ==
    /\ command = "parse"
    /\ \/ command' = "input" /\ UNCHANGED exc
       \/ command' = "except" /\ exc' = "ValueError"
    /\ UNCHANGED <<pvars, calls, avars, temp_dir, frames_dir>>

\* get_input_image: the bytes; ValueError, answered with a message and a
\* return; or a failure of the download
GetInputImage ==
    /\ command = "input"
    /\ \/ command' = "construct" /\ UNCHANGED exc
       \/ command' = "done" /\ UNCHANGED exc
       \/ \E e \in AwaitErrors : command' = "except" /\ exc' = e
    /\ UNCHANGED <<pvars, calls, avars, temp_dir, frames_dir>>

\* processor = AnimationProcessor(image_bytes): the image is loaded and put
\* on its canvas and the temporary directory is made, or the bytes are no
\* image and there is no processor
NewProcessorOfCommand ==
    /\ command = "construct"
    /\ \/ \E image_input \in AnimImages :
             /\ base_image' = Eval("AnimationProcessor_init", <<image_input>>)
             /\ temp_dir' = "present"
             /\ frames_dir' = NoFiles
             /\ command' = "status"
             /\ UNCHANGED exc
       \/ /\ command' = "except"
          /\ exc' = "ValueError"
          /\ UNCHANGED <<base_image, temp_dir, frames_dir>>
    /\ UNCHANGED <<pvars, calls, effects, given, num_frames, pc, i, j,
                   progress, attempts, frame_paths, raised>>

\* status_msg = await ctx.send("Generating animation...")
SendStatus ==
    /\ command = "status"
    /\ \/ command' = "generate" /\ UNCHANGED exc
       \/ \E e \in AwaitErrors : Raises(e)
    /\ UNCHANGED <<pvars, calls, avars, temp_dir, frames_dir>>

\* the number of frames a parsed command can ask for: --frames within the
\* configured limits, or the default
min_frames == 15
max_frames == 120
default_frames == 30
CommandFrames == {min_frames, default_frames, max_frames}

\* frames = processor.generate_frames(effects, num_frames), with the effects
\* and the number of frames of the command; saving a frame can fail, here
\* the first or the last one
GenerateFramesOfCommand ==
    /\ command = "generate"
    /\ \E effect_list \in Eval("AnimEffectLists", <<>>), n \in CommandFrames :
          LET out == generate_frames(effect_list, n)
          IN  /\ given' = effect_list
              /\ num_frames' = n
              /\ effects' = out.effects
              /\ \/ /\ raised' = out.err
                    /\ frame_paths' = out.frame_paths
                    /\ frames_dir' = SavedUpTo(frames_dir,
                                               Len(out.frame_paths), 1)
                 \/ /\ out.err = "none" /\ n > 0
                    /\ raised' = "OSError"
                    /\ frame_paths' = <<>>
                    /\ \E saved \in {0, n - 1} :
                          frames_dir' = SavedUpTo(frames_dir, saved, 1)
              /\ pc' = IF raised' = "none" THEN "returned" ELSE "raised"
              /\ IF raised' = "none"
                 THEN command' = "encode" /\ UNCHANGED exc
                 ELSE Raises(raised')
    /\ UNCHANGED <<pvars, calls, base_image, i, j, progress, attempts,
                   temp_dir>>

\* processor.create_video: refuses an empty list of frames; ffmpeg writes
\* output.mp4 into the temporary directory, or fails
CreateVideo ==
    /\ command = "encode"
    /\ IF frame_paths = <<>> THEN Raises("ValueError")
       ELSE \/ command' = "send" /\ UNCHANGED exc
            \/ Raises("CalledProcessError")
    /\ UNCHANGED <<pvars, calls, avars, temp_dir, frames_dir>>

\* the video is sent, and stored in the repository if the command has tags
SendVideo ==
    /\ command = "send"
    /\ \/ command' = "delete_status" /\ UNCHANGED exc
       \/ \E e \in AwaitErrors : Raises(e)
    /\ UNCHANGED <<pvars, calls, avars, temp_dir, frames_dir>>

\* await status_msg.delete(), the last statement of the try block
DeleteStatus ==
    /\ command = "delete_status"
    /\ \/ command' = "finally" /\ UNCHANGED exc
       \/ \E e \in AwaitErrors : Raises(e)
    /\ UNCHANGED <<pvars, calls, avars, temp_dir, frames_dir>>

\* finally: processor.cleanup(); an Exception in flight goes on to the
\* handler of the command, a cancellation leaves the command
Cleanup ==
    /\ command = "finally"
    /\ temp_dir' = cleanup(temp_dir)
    /\ frames_dir' = IF temp_dir' = "removed" THEN NoFiles ELSE frames_dir
    /\ command' = IF exc \in {"none", "CancelledError"} THEN "done"
                  ELSE "except"
    /\ UNCHANGED <<pvars, calls, avars, exc>>

\* except Exception: the error is reported to the channel
ReportError ==
    /\ command = "except"
    /\ command' = "done"
    /\ UNCHANGED <<pvars, calls, avars, temp_dir, frames_dir, exc>>

\* AnimationProcessor.__del__, when the processor of a finished command is
\* collected
Del ==
    /\ command = "done"
    /\ temp_dir # "absent"
    /\ temp_dir' = cleanup(temp_dir)
    /\ frames_dir' = IF temp_dir' = "removed" THEN NoFiles ELSE frames_dir
    /\ command' = "collected"
    /\ UNCHANGED <<pvars, calls, avars, exc>>

\* the steps of the coroutine
AnimateRun ==
    \/ ParseCommand
    \/ GetInputImage
    \/ NewProcessorOfCommand
    \/ SendStatus
    \/ GenerateFramesOfCommand
    \/ CreateVideo
    \/ SendVideo
    \/ DeleteStatus
    \/ Cleanup
    \/ ReportError

NextAnimate == AnimateRun \/ Del

\* the event loop runs a coroutine that can take a step, and every await of
\* the command ends or raises
SpecAnimate == InitAnimate /\ [][NextAnimate]_vars /\ WF_vars(AnimateRun)

----------------------------------------------------------------------------
(* One AnimationProcessor, call after call *)

\* generate_frames as one call; every save succeeds (saved = n) or the last
\* one fails and ends the call with its exception
GenerateFramesCall ==
    /\ Len(calls) < MaxCalls
    /\ \E effect_list \in Eval("RunLists", <<>>), n \in 0..MaxFrames :
       \E saved \in {n - 1, n} \cap (0..MaxFrames) :
          /\ LET out == Eval("generate_frames_on",
                             <<frames_dir, effect_list, n, saved,
                               Len(calls) + 1>>)
             IN  /\ effects' = out.effects
                 /\ raised' = out.err
                 /\ frame_paths' = out.frame_paths
                 /\ frames_dir' = out.files
          /\ given' = effect_list
          /\ num_frames' = n
          /\ pc' = IF raised' = "none" THEN "returned" ELSE "raised"
          /\ calls' = Append(calls,
                 [Call("generate_frames", effect_list, raised',
                       raised' = "none", <<>>)
                    EXCEPT !.num_frames = n, !.frames = frame_paths'])
    /\ UNCHANGED <<pvars, base_image, i, j, progress, attempts, command,
                   temp_dir, exc>>

\* create_video with the frame_paths the last generate_frames call
\* returned; applied holds the frame_paths given, frames what ffmpeg
\* encoded; ffmpeg can fail
CreateVideoCall ==
    /\ Len(calls) < MaxCalls
    /\ pc = "returned"
    /\ LET out == create_video(frames_dir, frame_paths)
       IN  \E err \in {out.err} \cup (IF out.err = "none"
                                      THEN {"CalledProcessError"} ELSE {}) :
              calls' = Append(calls,
                  [Call("create_video", <<>>, err, err = "none", frame_paths)
                     EXCEPT !.frames = IF err = "none" THEN out.encoded
                                       ELSE <<>>])
    /\ UNCHANGED <<pvars, avars, cvars>>

NextFrames ==
    \/ GenerateFramesCall
    \/ CreateVideoCall

SpecFrames == InitAnim /\ [][NextFrames]_vars

----------------------------------------------------------------------------
(* Properties *)

Rank(name) == CHOOSE k \in DOMAIN EFFECT_ORDER : EFFECT_ORDER[k] = name

\* names is in the order of EFFECT_ORDER
InCanonicalOrder(names) ==
    \A a, b \in DOMAIN names : a < b => Rank(names[a]) <= Rank(names[b])

NamesValid(effect_list) ==
    \A k \in DOMAIN effect_list : effect_list[k].name \in EffectMapNames

Over == pc \in {"returned", "raised"}

\* C1: whatever the order of the caller's list, the effects are applied in
\* the order rgb, color, glitch, chroma, scan, noise, energy, pulse,
\* consciousness: the effects apply_effects_sequence applied, and the effects
\* generate_frames tried on each frame, are in that order.
C1_CanonicalOrder ==
    /\ \A k \in DOMAIN calls :
          calls[k].op = "apply_effects_sequence" /\ calls[k].err = "none"
          => InCanonicalOrder(calls[k].applied)
    /\ \A k \in DOMAIN frame_paths :
          InCanonicalOrder([a \in DOMAIN frame_paths[k].attempts |->
                               frame_paths[k].attempts[a].name])

\* C2: on a new processor, one successful apply_effect followed by one undo
\* leaves the current image identical to the image the processor was
\* constructed with.
C2_UndoRestoresBase ==
    (/\ Len(calls) = 2
     /\ calls[1].op = "apply_effect"
     /\ calls[1].err = "none"
     /\ calls[2].op = "undo")
    => current_image = base_image

\* the value frame f used for parameter key of the effect at position k
UsedValue(f, k, key) == f.attempts[k].params[key].a

\* C3: generate_frames(effects, N) returns N frames with indexes 0..N-1, and
\* every range (start, end) of the caller's list is rendered with start on
\* frame 0 and with end on frame N-1.  Stated for N >= 2 and a list of valid
\* names (N = 1 is the subject of C4).
C3_FramesAndEndpoints ==
    (Over /\ num_frames >= 2 /\ NamesValid(given))
    => /\ pc = "returned"
       /\ Len(frame_paths) = num_frames
       /\ \A k \in DOMAIN frame_paths : frame_paths[k].index = k - 1
       /\ \A k \in DOMAIN given, key \in ParamNames :
             given[k].params[key].kind = "tuple"
             => /\ NumEq(UsedValue(frame_paths[1], k, key),
                         given[k].params[key].a)
                /\ NumEq(UsedValue(frame_paths[num_frames], k, key),
                         given[k].params[key].b)

\* C4: with num_frames = 1 frame generation does not fail with a division
\* by zero and renders its one frame at progress 0, in generate_frames and
\* in create_effect_animation.
C4_SingleFrame ==
    /\ (Over /\ num_frames = 1 /\ NamesValid(given))
       => /\ raised # "ZeroDivisionError"
          /\ Len(frame_paths) = 1
          /\ NumEq(frame_paths[1].progress, Zero)
    /\ \A k \in DOMAIN calls :
          (calls[k].op = "create_effect_animation" /\ calls[k].num_frames = 1)
          => calls[k].err # "ZeroDivisionError"

\* C5: in generate_frames an effect that fails on a frame is skipped on that
\* frame only: the call never raises once an effect has been tried, every
\* effect of the list is tried on every saved frame, in the order of the
\* list, and a call that got past validation and the progress computation
\* returns num_frames frames.
C5_EffectFailureSkipsOnlyThatEffect ==
    /\ pc = "raised" => attempts = <<>> /\ frame_paths = <<>>
    /\ pc = "effects"
       => /\ Len(attempts) = j - 1
          /\ \A k \in DOMAIN attempts : attempts[k].name = effects[k].name
    /\ \A k \in DOMAIN frame_paths :
          /\ frame_paths[k].index = k - 1
          /\ Len(frame_paths[k].attempts) = Len(effects)
          /\ \A a \in DOMAIN effects :
                frame_paths[k].attempts[a].name = effects[a].name
    /\ pc = "returned" => Len(frame_paths) = num_frames

\* a run in which an effect failed on the first frame, a later effect of the
\* list was applied to that frame, and later frames were generated
C5_Witness ==
    /\ pc = "returned"
    /\ Len(frame_paths) >= 2
    /\ Len(effects) >= 2
    /\ frame_paths[1].attempts[1].err # "none"
    /\ frame_paths[1].attempts[2].err = "none"

\* the frame processor at the start of a frame and of every saved frame
C6_FrameInputs ==
    /\ \A k \in DOMAIN frame_paths : frame_paths[k].input = base_image
    /\ pc = "effects" => original_image = base_image
    /\ (pc = "effects" /\ j = 1)
       => current_image = base_image /\ history = <<>>

\* C6: every frame is rendered by a new processor constructed with the base
\* image as it was before frame 0: no step of generate_frames changes
\* base_image, and every frame's processor starts with the base image as
\* original and current image and with an empty history.
C6_FreshProcessorPerFrame ==
    [][base_image' = base_image /\ C6_FrameInputs']_vars

\* two frames were rendered, the first one changed by its effects
C6_Witness ==
    /\ pc = "returned"
    /\ Len(frame_paths) >= 2
    /\ frame_paths[1].image # base_image
    /\ frame_paths[2].input = base_image

\* the ranges as the claim declares them
DeclaredMin(name) == Zero
DeclaredMax(name) == IF name \in {"energy", "pulse"} THEN PyInt(2) ELSE One

\* C7: apply_effect with the intensity or offset at the declared minimum or
\* maximum (glitch, chroma, noise, consciousness [0,1]; energy, pulse [0,2];
\* scan opacity [0,1] with gap 1) succeeds, and one unit below the minimum
\* or above the maximum (scan: also gap 0) fails with a range error.
C7_RangeBounds ==
    \A k \in DOMAIN calls :
       (/\ calls[k].op = "apply_effect"
        /\ calls[k].effects[1].name \in EffectMapNames)
       => LET name == calls[k].effects[1].name
              params == calls[k].effects[1].params
              key == IF name = "chroma" THEN "offset"
                     ELSE IF name = "scan" THEN "opacity" ELSE "intensity"
              x == params[key].a
              gapAtMin == name = "scan" => params["gap"] = Scalar(PyInt(1))
              gapBelow == name = "scan" /\ params["gap"] = Scalar(PyInt(0))
          IN  params[key].kind = "scalar"
              => /\ (gapAtMin /\ (NumEq(x, DeclaredMin(name))
                                  \/ NumEq(x, DeclaredMax(name))))
                    => calls[k].err = "none"
                 /\ (gapBelow
                     \/ NumEq(x, NumSub(DeclaredMin(name), One))
                     \/ NumEq(x, NumAdd(DeclaredMax(name), One)))
                    => calls[k].err = "RangeError"

Dispatchers ==
    {"apply_effect", "ImageProcessor.apply_effect", "create_animation_frame"}

\* C8: a dispatcher by effect name fails with an unknown-effect error exactly
\* when the name is not one of rgb, color, glitch, chroma, scan, noise,
\* energy, pulse, consciousness.
C8_UnknownEffect ==
    \A k \in DOMAIN calls :
       (calls[k].op \in Dispatchers /\ Len(calls[k].effects) = 1)
       => (calls[k].err = "UnknownEffect"
           <=> calls[k].effects[1].name \notin EffectName)

\* the call just made
Made(op) ==
    /\ Len(calls') = Len(calls) + 1
    /\ calls'[Len(calls')].op = op

\* C9: undo() on an empty history returns False, does not raise, and leaves
\* the current image, the history and the original image as they were.
C9_UndoOnEmptyHistory ==
    [][(Made("undo") /\ history = <<>>)
       => /\ calls'[Len(calls')].ret = FALSE
          /\ calls'[Len(calls')].err = "none"
          /\ UNCHANGED <<current_image, history, original_image>>]_vars

\* undo was refused after an effect had been applied and undone
C9_Witness ==
    /\ Len(calls) = 3
    /\ calls[1].op = "apply_effect" /\ calls[1].err = "none"
    /\ calls[2].op = "undo" /\ calls[2].ret = TRUE
    /\ calls[3].op = "undo" /\ calls[3].ret = FALSE

\* C10: after reset() the current image is the image the processor was
\* constructed with and the history is empty, and an undo() issued directly
\* after reset() returns False and leaves the current image the base image.
C10_Reset ==
    /\ (calls # <<>> /\ Last.op = "reset")
       => current_image = base_image /\ history = <<>>
    /\ (Len(calls) >= 2 /\ Last.op = "undo"
        /\ calls[Len(calls) - 1].op = "reset")
       => Last.ret = FALSE /\ current_image = base_image /\ history = <<>>

\* reset after chromatic aberration had filled the history, then undo
C10_Witness ==
    /\ Len(calls) = 3
    /\ calls[1].op = "apply_effect" /\ calls[1].err = "none"
    /\ calls[1].effects[1].name = "chroma"
    /\ calls[2].op = "reset"
    /\ calls[3].op = "undo" /\ calls[3].ret = FALSE
    /\ current_image = base_image

\* C11: no operation of a processor (apply_effect, apply_effects_sequence,
\* undo, reset, get_current_image, resize, the adjust operations) changes
\* the processor's original image; only the current image and the history
\* change.
C11_OriginalNeverChanges ==
    [][original_image' = original_image]_vars

\* an effect that converted the image, a resize and an undo have left a
\* current image and a history that differ from the initial ones
C11_Witness ==
    /\ Len(calls) = 3
    /\ calls[1].op = "apply_effect" /\ calls[1].err = "none"
    /\ calls[2].op = "resize"
    /\ calls[3].op = "undo" /\ calls[3].ret = TRUE
    /\ original_image.mode = "RGBA"
    /\ current_image # original_image
    /\ history # <<>>

\* Python's == on numbers and on tuples of numbers
PyEq(x, y) ==
    /\ x.kind = y.kind
    /\ x.str = y.str
    /\ Len(x.v) = Len(y.v)
    /\ \A k \in DOMAIN x.v : NumEq(x.v[k], y.v[k])

\* two numbers, or two tuples of the same length
Interpolable(x, y) ==
    \/ x.kind = "num" /\ y.kind = "num"
    \/ x.kind = "tuple" /\ y.kind = "tuple" /\ Len(x.v) = Len(y.v)

\* C12: for numbers and for tuples of equal length, and progress p in [0, 1],
\* interpolate_value(a, a, p) = a, interpolate_value(a, b, 0) = a and
\* interpolate_value(a, b, 1) = b (tuples element by element).
C12_InterpolateEndpoints ==
    \A k \in DOMAIN calls :
       LET c == calls[k]
       IN  (/\ c.op = "interpolate_value"
            /\ Interpolable(c.args[1], c.args[2])
            /\ Between(Zero, c.args[3], One))
           => /\ c.err = "none"
              /\ PyEq(c.args[1], c.args[2]) => PyEq(c.ret, c.args[1])
              /\ NumEq(c.args[3], Zero) => PyEq(c.ret, c.args[1])
              /\ NumEq(c.args[3], One) => PyEq(c.ret, c.args[2])

\* C13: interpolate_value and interpolate_parameters raise, and return no
\* value, when progress is outside [0, 1] and when start and end are tuples
\* of different lengths.
C13_InterpolationErrors ==
    \A k \in DOMAIN calls :
       LET c == calls[k]
       IN  (/\ c.op \in {"interpolate_value", "interpolate_parameters"}
            /\ \/ ~Between(Zero, c.args[3], One)
               \/ /\ c.args[1].kind = "tuple"
                  /\ c.args[2].kind = "tuple"
                  /\ Len(c.args[1].v) # Len(c.args[2].v))
           => c.err = "ValueError" /\ c.ret = PyNone

\* C14: in generate_frames a scalar parameter of the caller's effect list
\* reaches the effect with the caller's value on every frame, whatever the
\* parameter's name (intensity included).
C14_ScalarPassthrough ==
    (Over /\ NamesValid(given))
    => \A f \in DOMAIN frame_paths, k \in DOMAIN given, key \in ParamNames :
          given[k].params[key].kind = "scalar"
          => /\ frame_paths[f].attempts[k].params[key].kind = "scalar"
             /\ NumEq(UsedValue(frame_paths[f], k, key),
                      given[k].params[key].a)

\* the tag of the given kind in the pixels of an image
TagsOf(img, op) ==
    {img.px[k].v : k \in {n \in DOMAIN img.px : img.px[n].op = op}}

\* C15: the working canvas of an animation has the smallest even width and
\* height that are at least the width and height of the image (101 x 77
\* gives 102 x 78); an image of even size is the canvas itself; otherwise
\* the canvas is transparent and the image is pasted in its centre, the
\* margins on opposite sides differing by at most one pixel.
C15_EvenCanvas ==
    \A k \in DOMAIN calls :
       calls[k].op = "AnimationProcessor"
       => LET img == calls[k].args[1]
              canvas == calls[k].ret
              left == (canvas.w - img.w) \div 2
              top == (canvas.h - img.h) \div 2
          IN  /\ canvas.w % 2 = 0 /\ canvas.w \in {img.w, img.w + 1}
              /\ canvas.h % 2 = 0 /\ canvas.h \in {img.h, img.h + 1}
              /\ (img.w = 101 /\ img.h = 77)
                 => (canvas.w = 102 /\ canvas.h = 78)
              /\ (img.w % 2 = 0 /\ img.h % 2 = 0) => canvas = img
              /\ (img.w % 2 = 1 \/ img.h % 2 = 1)
                 => /\ canvas.mode = "RGBA"
                    /\ TagsOf(canvas, "canvas_alpha") = {PyInt(0)}
                    /\ TagsOf(canvas, "paste_left") = {PyInt(left)}
                    /\ TagsOf(canvas, "paste_top") = {PyInt(top)}
                    /\ Abs(left - (canvas.w - img.w - left)) <= 1
                    /\ Abs(top - (canvas.h - img.h - top)) <= 1

\* a 101 x 77 image was given
C15_Witness ==
    /\ calls # <<>>
    /\ Last.op = "AnimationProcessor"
    /\ Last.args[1].w = 101 /\ Last.args[1].h = 77
    /\ Last.ret.w = 102 /\ Last.ret.h = 78

AsciiOps == {"convert_to_ascii", "convertImageToAscii"}

\* the number of rows the claims state: floor(H / ((W / cols) / scale))
StatedRows(W, H, cols, scale) ==
    PyTrunc(NumDiv(PyInt(H), NumDiv(NumDiv(PyInt(W), PyInt(cols)), scale)))

\* C16: both ASCII conversions (ASCIIProcessor.convert_to_ascii and
\* ImageProcessor.convertImageToAscii) fail with a size error and return no
\* ASCII art when more columns are asked for than the image is wide, or
\* when the resulting number of rows is more than the image is high.
C16_AsciiSizeError ==
    \A k \in DOMAIN calls :
       LET c == calls[k]
       IN  (/\ c.op \in AsciiOps
            /\ \/ c.args[2] > c.args[1].w
               \/ StatedRows(c.args[1].w, c.args[1].h, c.args[2], c.args[3])
                  > c.args[1].h)
           => c.err = "ValueError" /\ c.ret = <<>>

\* C17: for cols <= W both ASCII conversions return exactly
\* floor(H / ((W / cols) / scale)) lines of exactly cols characters each
\* (10 lines of 50 characters for 100 x 50, cols = 50, scale = 0.43).
C17_AsciiGrid ==
    \A k \in DOMAIN calls :
       LET c == calls[k]
       IN  (c.op \in AsciiOps /\ c.args[2] <= c.args[1].w)
           => /\ c.err = "none"
              /\ Len(c.ret)
                 = StatedRows(c.args[1].w, c.args[1].h, c.args[2], c.args[3])
              /\ \A n \in DOMAIN c.ret : c.ret[n] = c.args[2]

C19_ZeroFramesRejected ==
    (Over /\ num_frames = 0)
    => /\ pc = "raised"
       /\ raised = "ValueError"
       /\ frame_paths = <<>>

\* C20: for a parameter with an adaptive rule (coloralpha, glitch, chroma,
\* noise, scan) the dict merge_params returns holds the value derived from
\* the statistics exactly when neither the user's dict nor the selected
\* preset gives that parameter.
C20_AdaptiveWhenNotExplicit ==
    \A n \in DOMAIN calls :
       calls[n].op = "merge_params"
       => LET analysis == calls[n].args[1]
              user_params == calls[n].args[2]
              merged == calls[n].ret
          IN  \A k \in AdaptiveKeys :
                 (/\ k \in DOMAIN merged
                  /\ PyEq(merged[k], AdaptiveValue(analysis, k)))
                 <=> (/\ k \notin DOMAIN user_params
                      /\ k \notin DOMAIN PresetOf(user_params))

\* the step is an apply_effect call that returned
AppliedOk ==
    /\ Len(calls') = Len(calls) + 1
    /\ calls'[Len(calls')].op = "apply_effect"
    /\ calls'[Len(calls')].err = "none"

\* C21: every apply_effect call that returns appends exactly one entry to
\* the undo history, the image that was current just before the call,
\* whatever the effect name and the mode of the image.
C21_OneHistoryEntry ==
    [][AppliedOk => history' = Append(history, current_image)]_vars

\* the sub-effects the composite is to apply at intensity x, as the library
\* functions called with their arguments
CompositeParts(x) ==
    <<Tag("energy", NumMul(x, PyFloat(1, 2))),
      Tag("pulse", NumMul(x, PyFloat(3, 10)))>>
    \o (IF NumLt(Half, x)
        THEN <<Tag("chroma", NumMul(x, PyFloat(2, 5)))>> ELSE <<>>)

\* what a part leaves in the pixel history of a processor's image of width
\* width: energy and pulse at 0 return an equal image, chroma shifts the
\* red and the blue channel by int(width * offset * 0.1)
PartTags(part, width) ==
    IF part.op = "chroma"
    THEN LET max_offset ==
                 PyTrunc(NumMul(NumMul(PyInt(width), part.v), PyFloat(1, 10)))
         IN  <<Tag("offset_R", PyInt(-max_offset)),
               Tag("offset_B", PyInt(max_offset))>>
    ELSE IF NumEq(part.v, Zero) THEN <<>> ELSE <<part>>

RECURSIVE PartsTags(_, _)
PartsTags(parts, width) ==
    IF parts = <<>> THEN <<>>
    ELSE PartTags(Head(parts), width) \o PartsTags(Tail(parts), width)

NotConversion(t) == t.op # "convert"

\* the call is a consciousness effect with a scalar (or default) intensity
\* inside [0, 1]
CompositeCall(call) ==
    /\ call.effects[1].name = "consciousness"
    /\ call.effects[1].params["intensity"].kind # "tuple"
    /\ Between(Zero, Get(call.effects[1].params, "intensity", Half).a, One)

\* C22: at an intensity x in [0, 1] the composite consciousness effect
\* applies energy at 0.5 * x, then pulse at 0.3 * x, then chromatic
\* aberration at 0.4 * x exactly when x > 0.5, in this order, and no
\* sub-effect raises a range error; for the method of EffectProcessor and
\* for the function of the library.
C22_ConsciousnessComposite ==
    \A n \in DOMAIN calls :
       LET x == Get(calls[n].effects[1].params, "intensity", Half).a
       IN  /\ (calls[n].op = "apply_effect" /\ CompositeCall(calls[n]))
              => /\ calls[n].err = "none"
                 /\ SelectSeq(current_image.px, NotConversion)
                    = PartsTags(CompositeParts(x), current_image.w)
           /\ (/\ calls[n].op = "advanced_effects.apply_consciousness_effect"
               /\ CompositeCall(calls[n]))
              => /\ calls[n].err # "RangeError"
                 /\ calls[n].applied = CompositeParts(x)

\* the composite applied above the threshold: chroma is the last part
C22_Witness ==
    /\ Len(calls) = 1
    /\ calls[1].op = "apply_effect"
    /\ CompositeCall(calls[1])
    /\ NumLt(Half, calls[1].effects[1].params["intensity"].a)
    /\ calls[1].err = "none"
    /\ Len(current_image.px) >= 4
    /\ current_image.px[Len(current_image.px)].op = "offset_B"

\* the step is an apply_effect call that raised
AppliedRaised ==
    /\ Len(calls') = Len(calls) + 1
    /\ calls'[Len(calls')].op = "apply_effect"
    /\ calls'[Len(calls')].err # "none"

\* C23: an apply_effect call that raises (unknown name, parameter out of
\* range, or a failure inside the effect) leaves the current image and the
\* undo history of the processor as they were before the call.
C23_RaiseLeavesStateUnchanged ==
    [][AppliedRaised => /\ current_image' = current_image
                        /\ history' = history]_vars

\* the call applies glitch alone, by the method or by the library function,
\* with a scalar (or default) intensity inside [0, 1]
GlitchCall(call) ==
    /\ call.op \in {"apply_effect", "create_animation_frame"}
    /\ Len(call.effects) = 1
    /\ call.effects[1].name = "glitch"
    /\ call.effects[1].params["intensity"].kind # "tuple"
    /\ \A k \in ParamNames \ {"intensity"} :
          call.effects[1].params[k].kind = "absent"
    /\ Between(Zero, Get(call.effects[1].params, "intensity", Half).a, One)

\* C24: glitch succeeds for every intensity in [0, 1] and every image
\* height: the random choice of the row and of the offset never fails
\* (apply_glitch and apply_glitch_effect).
C24_GlitchSucceedsInRange ==
    \A n \in DOMAIN calls :
       GlitchCall(calls[n]) => calls[n].err = "none"

\* two parameter values are equal in Python: both absent, or numbers (or
\* tuples of numbers) that compare equal
SameValue(x, y) ==
    /\ x.kind = y.kind
    /\ NumEq(x.a, y.a)
    /\ NumEq(x.b, y.b)

SameEffects(xs, ys) ==
    /\ Len(xs) = Len(ys)
    /\ \A k \in DOMAIN xs :
          /\ xs[k].name = ys[k].name
          /\ \A key \in ParamNames :
                SameValue(xs[k].params[key], ys[k].params[key])

\* C25: generate_frames does not modify the effect specs of the caller:
\* after the call every parameter value of the caller's list is what it was
\* when the call was made.
C25_CallerEffectsUnchanged ==
    Over => SameEffects(effects, given)

\* C26: after any sequence of generate_frames calls on one
\* AnimationProcessor the frames directory holds exactly the frame files the
\* most recent call returned, and create_video encodes exactly the frames of
\* the frame_paths it was given.
C26_DirectoryHoldsLatestFrames ==
    /\ pc = "returned"
       => DOMAIN frames_dir = {frame_paths[k] : k \in DOMAIN frame_paths}
    /\ \A n \in DOMAIN calls :
          calls[n].op = "create_video" /\ calls[n].err = "none"
          => calls[n].frames = calls[n].applied

\* a scan effect whose gap is a range (start, end) of integers, start >= 1
IntegerGapRange(e) ==
    /\ e.name = "scan"
    /\ e.params["gap"].kind = "tuple"
    /\ ~e.params["gap"].a.isfloat
    /\ ~e.params["gap"].b.isfloat
    /\ NumLeq(One, e.params["gap"].a)

\* C27: in generate_frames a scan effect whose gap is an integer range
\* (start, end) with start >= 1, as (2, 4) of the cyberpunk preset, is
\* applied on every frame: the interpolated gap is a value the scan-line
\* effect accepts and the effect is never skipped.
C27_ScanGapRangeApplied ==
    \A f \in DOMAIN frame_paths :
       \A k \in DOMAIN frame_paths[f].attempts :
          IntegerGapRange(effects[k])
          => frame_paths[f].attempts[k].err = "none"

\* the step is a create_effect_animation call
AnimationMade ==
    /\ Len(calls') = Len(calls) + 1
    /\ calls'[Len(calls')].op = "create_effect_animation"

\* C28: create_effect_animation leaves the state of the processor it is
\* called on unchanged: current image, undo history and original image are
\* after the call what they were before, whatever the effect name, the
\* parameters and the number of frames.
C28_AnimationLeavesCaller ==
    [][AnimationMade => /\ current_image' = current_image
                        /\ history' = history
                        /\ original_image' = original_image]_vars

\* an animation of two frames or more was rendered, its frames differ from
\* the image of the calling processor
C28_Witness ==
    /\ Len(calls) = 1
    /\ calls[1].op = "create_effect_animation"
    /\ calls[1].err = "none"
    /\ calls[1].num_frames >= 2
    /\ Len(calls[1].frames) = calls[1].num_frames
    /\ \A k \in DOMAIN calls[1].frames :
          calls[1].frames[k].image # current_image

\* the preset a user's dict selects: the entry of EFFECT_PRESETS under the
\* name given, nothing for a name that is no preset or for no name
SelectedPreset(user_params) ==
    IF "preset" \in DOMAIN user_params
       /\ \E name \in DOMAIN EFFECT_PRESETS :
             user_params["preset"] = PyStr(name)
    THEN EFFECT_PRESETS[user_params["preset"].str]
    ELSE EmptyDict

\* C29: merge_params resolves every key by a fixed precedence: the user's
\* value if the user gave the key, otherwise the value of the selected
\* preset if it has the key, otherwise the adaptive value; the keys of the
\* result are the union of the three sources, and a preset name that is
\* not known contributes nothing.
C29_MergePrecedence ==
    \A n \in DOMAIN calls :
       calls[n].op = "merge_params"
       => LET analysis == calls[n].args[1]
              user_params == calls[n].args[2]
              preset_params == SelectedPreset(user_params)
              adaptive_params ==
                  get_adaptive_params(analysis, user_params, preset_params)
              merged == calls[n].ret
          IN  /\ calls[n].err = "none"
              /\ DOMAIN merged = DOMAIN user_params \cup DOMAIN preset_params
                                   \cup DOMAIN adaptive_params
              /\ \A k \in DOMAIN merged :
                    merged[k] = IF k \in DOMAIN user_params
                                THEN user_params[k]
                                ELSE IF k \in DOMAIN preset_params
                                THEN preset_params[k]
                                ELSE adaptive_params[k]

\* a key that the user, the selected preset and the adaptive rules all give,
\* with different values, and a key only the preset gives
C29_Witness ==
    /\ Len(calls) = 1
    /\ calls[1].op = "merge_params"
    /\ LET analysis == calls[1].args[1]
           user_params == calls[1].args[2]
           preset_params == SelectedPreset(user_params)
       IN  /\ "glitch" \in DOMAIN user_params \cap DOMAIN preset_params
           /\ user_params["glitch"] # preset_params["glitch"]
           /\ ~PyEq(AdaptiveValue(analysis, "glitch"), user_params["glitch"])
           /\ calls[1].ret["glitch"] = user_params["glitch"]
           /\ \E k \in DOMAIN preset_params \ DOMAIN user_params :
                 calls[1].ret[k] = preset_params[k]

\* the length of the ramp a call indexes
RampLength(call) ==
    IF call.op = "char_idx"
    THEN IF call.args[2] THEN detailed_chars ELSE basic_chars
    ELSE IF call.args[2] THEN gscale1 ELSE gscale2

\* the index computed for value v by the operation of the call
IndexAt(call, v) ==
    IF call.op = "char_idx" THEN char_idx(v, call.args[2])
    ELSE gsval(v, call.args[2])

\* C30: for every luminance v in 0..255 and every character ramp (basic and
\* detailed of ASCIIProcessor, the ramps of 10 and of 70 glyphs of
\* convertImageToAscii) the index computed lies within the ramp, is 0 for
\* v = 0 and the last index for v = 255, and does not decrease as v grows.
C30_RampIndex ==
    \A n \in DOMAIN calls :
       calls[n].op \in {"char_idx", "gsval"}
       => LET v == calls[n].args[1]
              len == RampLength(calls[n])
          IN  /\ calls[n].ret \in 0..(len - 1)
              /\ v = 0 => calls[n].ret = 0
              /\ v = MaxPixel => calls[n].ret = len - 1
              /\ v > 0 => IndexAt(calls[n], v - 1) <= calls[n].ret

\* white on the ramp of 70 glyphs: the last glyph
C30_Witness ==
    /\ Len(calls) = 1
    /\ calls[1].op = "gsval"
    /\ calls[1].args = <<MaxPixel, TRUE>>
    /\ calls[1].ret = gscale1 - 1

====
